---- MODULE Spec2Model ----
(***************************************************************************)
(* RACC (Trellix SIEM Rule & Alarm Control Center): the rule-logic         *)
(* compiler and the rule-alarm relationship engine.                        *)
(*                                                                         *)
(*   frontend/src/utils/severity.js      parseRuleFilters                  *)
(*   frontend/src/components/pages/Rules.test.jsx                          *)
(*                                       layoutRuleNodes, fetchRuleDetails *)
(*   frontend/src/components/pages/Analysis.jsx   safeRatio, radarData     *)
(*   backend (Flask, not part of the frontend sources): alarm synthesis,   *)
(*   relationship detection and coverage, modelled from spec.md 4.3-4.5    *)
(*                                                                         *)
(* Strings are sequences of one-character strings, so that concatenation,  *)
(* substring search, trimming and case folding are computed.               *)
(***************************************************************************)
EXTENDS Integers, Sequences, FiniteSets, TLC

VARIABLES
    xmlContent,     \* parser: the argument of parseRuleFilters
    engine,         \* parser: which DOMParser implementation hosts the page
    parsed,         \* parser: <<>> before the call, <<result>> after it
    layoutRef,      \* layout: <<>> or <<[input, output]>> of a remembered call
    layoutLast,     \* layout: <<>> or <<[input, output]>> of the latest call
    layoutCount,    \* layout: the number of calls made so far
    customerRules,  \* backend: the rules of the customer
    customerAlarms, \* backend: the alarms of the customer
    genCalls,       \* backend: the generation calls so far, oldest first,
                    \* each [selection, matchField, range, before, result]
    selectedRule,       \* FlowDiagram: null (<<>>) or <<rule>>
    connectedAlarms,    \* FlowDiagram: alarms with a Relationship to the rule
    eventOverlapAlarms, \* FlowDiagram: alarms that only share event ids
    flowNodes,          \* FlowDiagram: the nodes of the diagram
    flowEdges,          \* FlowDiagram: the edges of the diagram
    flowLoading,        \* FlowDiagram: the loading flag
    flowPending,        \* FlowDiagram: rule ids of the fetches in flight
    detailsShown,       \* FlowDiagram: the two lists hold a completed fetch
    coverage,           \* Analysis: null (<<>>) or <<coverage summary>>
    relationships,      \* Analysis: the relationships last fetched
    unmatchedRules,     \* Analysis: the unmatched rules last fetched
    unmatchedAlarms,    \* Analysis: the unmatched alarms last fetched
    eventUsage,         \* Analysis: the event usage last fetched
    analysisLoading,    \* Analysis: the loading flag
    analysisPending,    \* Analysis: the number of fetches in flight
    selectedCustomerId, \* Rules: the customer chosen in the sidebar, 0 for null
    pageRules,          \* Rules: the ids of the rules listed (the state  rules)
    rulesLoading,       \* Rules: the loading flag
    rulesPending,       \* Rules: customers whose rules are being fetched
    selectedRules,      \* Rules: the ids of the rules ticked
    generatePending,    \* Rules: <<>> or <<customer>> of the generation in flight
    generating,         \* Rules: the generating flag
    generateCalls,      \* Rules: the number of generateAlarms calls made
    lastGenerateCall,   \* Rules: <<>> or <<the latest generateAlarms call>>
    diagramRule,        \* diagram: <<>> or <<the rule given to generateFlowDiagram>>
    diagramAlarms,      \* diagram: the alarms given to generateFlowDiagram
    diagramShown,       \* diagram: <<>> or <<[nodes, edges] given to setNodes, setEdges>>
    invocations,        \* calls: per caller [phase, fn, input, held, outcome]
    toasts,             \* toast: the toasts of the reducer's state, newest first
    lastToastAction,    \* toast: <<>> or <<[state, action] of the latest dispatch>>
    systemSettings,     \* Settings: the settings in the form
    systemLoading,      \* Settings: the loading flag
    systemDirty,        \* Settings: the unsaved-changes flag
    savePending         \* Settings: <<>> or <<the settings of the save in flight>>

parserVars == <<xmlContent, engine, parsed>>

layoutVars == <<layoutRef, layoutLast, layoutCount>>

coreVars == <<customerRules, customerAlarms>>

synthVars == <<genCalls>>

flowVars == <<selectedRule, connectedAlarms, eventOverlapAlarms, flowNodes,
              flowEdges, flowLoading, flowPending, detailsShown>>

analysisVars == <<coverage, relationships, unmatchedRules, unmatchedAlarms,
                  eventUsage, analysisLoading, analysisPending>>

rulesVars == <<selectedCustomerId, pageRules, rulesLoading, rulesPending,
               selectedRules, generatePending, generating, generateCalls, lastGenerateCall>>

diagramVars == <<diagramRule, diagramAlarms, diagramShown>>

callVars == <<invocations>>

toastVars == <<toasts, lastToastAction>>

settingsVars == <<systemSettings, systemLoading, systemDirty, savePending>>

uiVars == <<toastVars, settingsVars>>

vars == <<xmlContent, engine, parsed, layoutRef, layoutLast, layoutCount,
          customerRules, customerAlarms, genCalls,
          selectedRule, connectedAlarms, eventOverlapAlarms, flowNodes,
          flowEdges, flowLoading, flowPending, detailsShown,
          coverage, relationships, unmatchedRules, unmatchedAlarms,
          eventUsage, analysisLoading, analysisPending,
          selectedCustomerId, pageRules, rulesLoading, rulesPending,
          selectedRules, generatePending, generating, generateCalls, lastGenerateCall,
          diagramRule, diagramAlarms, diagramShown,
          invocations,
          toasts, lastToastAction,
          systemSettings, systemLoading, systemDirty, savePending>>

(***************************************************************************)
(* Bounds of the model                                                     *)
(***************************************************************************)
MaxComponents == 2      \* singleFilterComponent elements per matchFilter
MaxRules == 2           \* <rule> elements per document
MaxTriggers == 2        \* <trigger> elements per document
MaxLayoutNodes == 2     \* nodes handed to one layout call
MaxLayoutCalls == 3     \* layout calls in one behaviour
MaxCoreRules == 2       \* rules of the customer
MaxCoreAlarms == 2      \* alarms of the customer before any generation
MaxGenCalls == 2        \* alarm generation calls in one behaviour
MaxPending == 2         \* fetches of one page in flight at the same time
MaxRulesPerCustomer == 2    \* rules of each customer listed on the Rules page
MaxCallers == 2         \* callers whose invocations overlap
MaxPlacedNodes == 3     \* nodes handed to the layout when placement is examined
MaxToastId == 2         \* toast ids in use

(***************************************************************************)
(* Strings                                                                 *)
(***************************************************************************)
LowerAlpha == <<"a","b","c","d","e","f","g","h","i","j","k","l","m",
                "n","o","p","q","r","s","t","u","v","w","x","y","z">>
UpperAlpha == <<"A","B","C","D","E","F","G","H","I","J","K","L","M",
                "N","O","P","Q","R","S","T","U","V","W","X","Y","Z">>

toUpperChar(c) ==
    IF \E i \in 1..26 : LowerAlpha[i] = c
    THEN UpperAlpha[CHOOSE i \in 1..26 : LowerAlpha[i] = c]
    ELSE c

toLowerChar(c) ==
    IF \E i \in 1..26 : UpperAlpha[i] = c
    THEN LowerAlpha[CHOOSE i \in 1..26 : UpperAlpha[i] = c]
    ELSE c

\* mutant: the text as it is
toUpperCase_Identity(s) == s

toUpperCase(s) == [i \in 1..Len(s) |-> toUpperChar(s[i])]
toLowerCase(s) == [i \in 1..Len(s) |-> toLowerChar(s[i])]

\* String.prototype.includes
includes(s, sub) ==
    \E i \in 0..(Len(s) - Len(sub)) :
        \A j \in 1..Len(sub) : s[i + j] = sub[j]

\* String.prototype.substring(0, n)
substring0(s, n) == SubSeq(s, 1, IF n < Len(s) THEN n ELSE Len(s))

sRootRule == <<"R","o","o","t"," ","R","u","l","e">>
sAnd == <<"a","n","d">>
sOr == <<"o","r">>
sNull == <<"n","u","l","l">>
sEQUALS == <<"E","Q","U","A","L","S">>
sIN == <<"I","N">>
sTRIGGER == <<"T","R","I","G","G","E","R">>
sValue == <<"v","a","l","u","e">>
sOperator == <<"o","p","e","r","a","t","o","r">>
sOne == <<"1">>
sSixty == <<"6","0">>
NL == <<"\n">>

\* decimal digits of a small natural number, as `${n}` prints it
RECURSIVE numStr(_)
numStr(n) ==
    LET digit == <<"0","1","2","3","4","5","6","7","8","9">>
    IN IF n < 10 THEN <<digit[n + 1]>>
       ELSE numStr(n \div 10) \o <<digit[(n % 10) + 1]>>

(***************************************************************************)
(* XML documents: an element is a tag, a set of <<attribute, value>> pairs *)
(* and the sequence of its child elements; an absent attribute is <<>> and *)
(* a present one <<value>>.                                                *)
(***************************************************************************)
El(tag, attrs, kids) == [tag |-> tag, attrs |-> attrs, kids |-> kids]

hasAttribute(e, a) == \E p \in e.attrs : p[1] = a

getAttribute(e, a) ==
    IF hasAttribute(e, a)
    THEN <<(CHOOSE p \in e.attrs : p[1] = a)[2]>>
    ELSE <<>>

\* JavaScript's  x || d  for a nullable string: null and "" are both falsy
orDefault(opt, d) == IF opt = <<>> \/ opt[1] = <<>> THEN d ELSE opt[1]

\* the descendants of an element in document order (preorder)
RECURSIVE Descendants(_)
Descendants(e) ==
    LET RECURSIVE Walk(_)
        Walk(i) == IF i > Len(e.kids) THEN <<>>
                   ELSE <<e.kids[i]>> \o Descendants(e.kids[i]) \o Walk(i + 1)
    IN Walk(1)

\* Element.querySelectorAll / querySelector: descendants that match
querySelectorAll(e, Matches(_)) == SelectSeq(Descendants(e), Matches)

querySelector(e, Matches(_)) ==
    LET all == querySelectorAll(e, Matches)
    IN IF all = <<>> THEN <<>> ELSE <<all[1]>>

\* Document.querySelectorAll / querySelector: the root element counts too
docQuerySelectorAll(doc, Matches(_)) ==
    SelectSeq(<<doc.root>> \o Descendants(doc.root), Matches)

docQuerySelector(doc, Matches(_)) ==
    LET all == docQuerySelectorAll(doc, Matches)
    IN IF all = <<>> THEN <<>> ELSE <<all[1]>>

\* DOMParser.parseFromString(text, 'text/xml').  Well-formed text gives its
\* tree.  For text that is not well-formed the implementations differ:
\* Gecko returns a document whose root is <parsererror>, WebKit/Blink keep
\* what was parsed before the error and insert <parsererror> as the first
\* child of the root.
parseFromString(text, eng) ==
    IF text.kind = "wellformed" THEN [root |-> text.root]
    ELSE IF eng = "gecko" THEN [root |-> El("parsererror", {}, <<>>)]
    ELSE [root |-> El(text.root.tag, text.root.attrs,
                      <<El("parsererror", {}, <<>>)>> \o text.root.kids)]

(***************************************************************************)
(* parseRuleFilters (utils/severity.js 51-222).  A node is                 *)
(* {id, type, position, data: {label, type, details}}; the constant style  *)
(* objects are left out.  Ids `${prefix}_${n}` are <<prefix, n>>.  The     *)
(* result null is Null; a graph is [isNull |-> FALSE, nodes, edges].       *)
(***************************************************************************)
Null == [isNull |-> TRUE, nodes |-> <<>>, edges |-> <<>>]

Graph(nodes, edges) == [isNull |-> FALSE, nodes |-> nodes, edges |-> edges]

isTag(e, tag) == e.tag = tag

\* mutant: the selector misspelt as  parseerror
isParserError_Misspelt(e) == e.tag = "parseerror"

\* the selector  parsererror  (line 60)
isParserError(e) == e.tag = "parsererror"

\* mutant: the selector  *  (any element will do)
isRuleset_AnyElement(e) == e.tag = e.tag

\* the selector  ruleset  (line 71)
isRuleset(e) == e.tag = "ruleset"

\* mutant: the selector  rule[name]  without the :not(...) part
isSelectedRule_NoExclusion(e) == e.tag = "rule" /\ hasAttribute(e, "name")

\* the selector  rule[name]:not([name="Root Rule"])
isSelectedRule(e) ==
    /\ e.tag = "rule"
    /\ hasAttribute(e, "name")
    /\ getAttribute(e, "name") # <<sRootRule>>

\* the selector  action[type="TRIGGER"]
isTriggerAction(e) ==
    e.tag = "action" /\ getAttribute(e, "type") = <<sTRIGGER>>

\* the selector  filterData[name="..."]
isFilterData(e, name) ==
    e.tag = "filterData" /\ getAttribute(e, "name") = <<name>>

sTriggerPrefix == <<"t","r","i","g","g","e","r","_">>
sRulePrefix == <<"r","u","l","e","_">>
sCount == <<"C","o","u","n","t",":"," ">>
sTimeout == <<","," ","T","i","m","e","o","u","t",":"," ">>
sFilter == <<" ","F","i","l","t","e","r">>
sDots == <<".",".",".">>

LabelLimit == 20

\* lines 76-98: the node of one <trigger>; index counts from 0
triggerNode(trigger, index, nodeId) ==
    LET triggerName == orDefault(getAttribute(trigger, "name"),
                                 sTriggerPrefix \o numStr(index + 1))
        count == orDefault(getAttribute(trigger, "count"), sOne)
        timeout == orDefault(getAttribute(trigger, "timeout"), sSixty)
    IN [id |-> <<"trigger", nodeId>>,
        type |-> "default",
        position |-> [x |-> 250, y |-> 50 + index * 100],
        data |-> [label |-> triggerName \o NL \o sCount \o count
                            \o sTimeout \o timeout \o <<"s">>,
                  type |-> "trigger",
                  details |-> <<>>]]

\* mutant: nodeId is not advanced after a trigger node
RECURSIVE addTriggers_SameId(_, _, _)
addTriggers_SameId(triggers, i, st) ==
    IF i > Len(triggers) THEN st
    ELSE addTriggers_SameId(triggers, i + 1,
            [nodes |-> Append(st.nodes, triggerNode(triggers[i], i - 1, st.nodeId)),
             edges |-> st.edges,
             nodeId |-> st.nodeId])

\* triggers.forEach
RECURSIVE addTriggers(_, _, _)
addTriggers(triggers, i, st) ==
    IF i > Len(triggers) THEN st
    ELSE addTriggers(triggers, i + 1,
            [nodes |-> Append(st.nodes, triggerNode(triggers[i], i - 1, st.nodeId)),
             edges |-> st.edges,
             nodeId |-> st.nodeId + 1])

\* mutant: the value as the label shows it
componentDetails_Cut(filterType, operator, value) ==
    [filterType |-> filterType, operator |-> operator,
     value |-> substring0(value, LabelLimit)]

\* line 178: details: { filterType, operator, value }
componentDetails(filterType, operator, value) ==
    [filterType |-> filterType, operator |-> operator, value |-> value]

\* lines 161-188: the node of one <singleFilterComponent>
componentNode(component, index, filterIndex, nodeId) ==
    LET filterType == getAttribute(component, "type")
        valueElem == querySelector(component, LAMBDA e : isFilterData(e, sValue))
        operatorElem == querySelector(component, LAMBDA e : isFilterData(e, sOperator))
        value == IF valueElem = <<>> THEN <<>>
                 ELSE orDefault(getAttribute(valueElem[1], "value"), <<>>)
        operator == IF operatorElem = <<>> THEN sEQUALS
                    ELSE orDefault(getAttribute(operatorElem[1], "value"), sEQUALS)
        shown == IF Len(value) > LabelLimit
                 THEN substring0(value, LabelLimit) \o sDots
                 ELSE value
    IN [id |-> <<"component", nodeId>>,
        type |-> "default",
        position |-> [x |-> 500, y |-> 100 + index * 200 + filterIndex * 80],
        data |-> [label |-> (IF filterType = <<>> THEN sNull ELSE filterType[1])
                            \o NL \o operator \o NL \o shown,
                  type |-> "filterComponent",
                  details |-> <<componentDetails(filterType, operator, value)>>]]

\* mutant: source and target exchanged
edge_Reversed(source, target, animated) ==
    [id |-> <<"edge", source, target>>, source |-> target,
     target |-> source, animated |-> animated]

edge(source, target, animated) ==
    [id |-> <<"edge", source, target>>, source |-> source,
     target |-> target, animated |-> animated]

\* filterComponents.forEach (lines 161-197)
RECURSIVE addComponents(_, _, _, _, _)
addComponents(components, i, index, filterGroupId, st) ==
    IF i > Len(components) THEN st
    ELSE LET node == componentNode(components[i], index, i - 1, st.nodeId)
         IN addComponents(components, i + 1, index, filterGroupId,
                [nodes |-> Append(st.nodes, node),
                 edges |-> Append(st.edges, edge(filterGroupId, node.id, FALSE)),
                 nodeId |-> st.nodeId + 1])

\* nodes.find(n => n.data.label.includes(triggerAttr) && n.data.type === 'trigger')
findTriggerNode(nodes, triggerAttr) ==
    LET hits == SelectSeq(nodes, LAMBDA n :
                    includes(n.data.label, triggerAttr) /\ n.data.type = "trigger")
    IN IF hits = <<>> THEN <<>> ELSE <<hits[1]>>

\* lines 102-215: the body of rules.forEach for one rule; index counts from 0
addRule(rule, index, triggerCount, st) ==
    LET ruleName == orDefault(getAttribute(rule, "name"),
                              sRulePrefix \o numStr(index + 1))
        ruleNodeId == <<"rule", st.nodeId>>
        ruleNode == [id |-> ruleNodeId,
                     type |-> "default",
                     position |-> [x |-> 50, y |-> 150 + index * 200],
                     data |-> [label |-> ruleName, type |-> "rule",
                               details |-> <<>>]]
        st1 == [nodes |-> Append(st.nodes, ruleNode),
                edges |-> st.edges,
                nodeId |-> st.nodeId + 1]
        matchFilter == querySelector(rule, LAMBDA e : isTag(e, "matchFilter"))
    IN IF matchFilter = <<>> THEN st1
       ELSE
        LET filterType == orDefault(getAttribute(matchFilter[1], "type"), sAnd)
            filterGroupId == <<"filter", st1.nodeId>>
            groupNode == [id |-> filterGroupId,
                          type |-> "default",
                          position |-> [x |-> 300, y |-> 150 + index * 200],
                          data |-> [label |-> toUpperCase(filterType) \o sFilter,
                                    type |-> "filterGroup",
                                    details |-> <<>>]]
            st2 == [nodes |-> Append(st1.nodes, groupNode),
                    edges |-> Append(st1.edges, edge(ruleNodeId, filterGroupId, TRUE)),
                    nodeId |-> st1.nodeId + 1]
            filterComponents ==
                querySelectorAll(matchFilter[1],
                                 LAMBDA e : isTag(e, "singleFilterComponent"))
            st3 == addComponents(filterComponents, 1, index, filterGroupId, st2)
            actionElem == querySelector(rule, isTriggerAction)
        IN IF actionElem # <<>> /\ triggerCount > 0
           THEN LET attr == getAttribute(actionElem[1], "trigger")
                    \* includes(null) searches for the text "null"
                    triggerAttr == IF attr = <<>> THEN sNull ELSE attr[1]
                    triggerNodeFound == findTriggerNode(st3.nodes, triggerAttr)
                IN IF triggerNodeFound # <<>>
                   THEN [st3 EXCEPT !.edges =
                            Append(@, edge(filterGroupId, triggerNodeFound[1].id, TRUE))]
                   ELSE st3
           ELSE st3

\* rules.forEach
RECURSIVE addRules(_, _, _, _)
addRules(rules, i, triggerCount, st) ==
    IF i > Len(rules) THEN st
    ELSE addRules(rules, i + 1, triggerCount,
                  addRule(rules[i], i - 1, triggerCount, st))

\* mutant: nodeId kept outside the function, counting on from the calls
\* that have returned
parserLocals_Shared ==
    [nodes |-> <<>>, edges |-> <<>>,
     nodeId |-> Cardinality({c \in DOMAIN invocations :
                                invocations[c].phase = "returned"})]

\* lines 66-68: const nodes = []; const edges = []; let nodeId = 0;
parserLocals == [nodes |-> <<>>, edges |-> <<>>, nodeId |-> 0]

parseRuleFilters(text, eng) ==
    IF text.kind = "empty" THEN Null                       \* if (!xmlContent)
    ELSE
      LET xmlDoc == parseFromString(text, eng)
          parserError == docQuerySelector(xmlDoc, isParserError)
          ruleset == docQuerySelector(xmlDoc, isRuleset)
      IN IF parserError # <<>> THEN Null
         ELSE IF ruleset = <<>> THEN Null
         ELSE
           LET triggers == docQuerySelectorAll(xmlDoc, LAMBDA e : isTag(e, "trigger"))
               st0 == addTriggers(triggers, 1, parserLocals)
               rules == docQuerySelectorAll(xmlDoc, isSelectedRule)
               st1 == addRules(rules, 1, Len(triggers), st0)
           IN Graph(st1.nodes, st1.edges)

\* the result {} of getRuleStatistics
NoStatistics ==
    [isEmpty |-> TRUE, triggers |-> 0, rules |-> 0, filters |-> 0,
     andFilters |-> 0, orFilters |-> 0]

\* utils/severity.js 224-248; the document is not searched for parsererror
getRuleStatistics(text, eng) ==
    IF text.kind = "empty" THEN NoStatistics               \* if (!xmlContent)
    ELSE
      LET xmlDoc == parseFromString(text, eng)
          count(Matches(_)) == Len(docQuerySelectorAll(xmlDoc, Matches))
      IN [isEmpty |-> FALSE,
          triggers |-> count(LAMBDA e : isTag(e, "trigger")),
          rules |-> count(isSelectedRule),
          filters |-> count(LAMBDA e : isTag(e, "singleFilterComponent")),
          andFilters |-> count(LAMBDA e :
                            isTag(e, "matchFilter") /\ getAttribute(e, "type") = <<sAnd>>),
          orFilters |-> count(LAMBDA e :
                            isTag(e, "matchFilter") /\ getAttribute(e, "type") = <<sOr>>)]

(***************************************************************************)
(* The XML texts the parser is run on.                                     *)
(***************************************************************************)
SeqsUpTo(S, n) == UNION {[1..k -> S] : k \in 0..n}

sA == <<"A">>
sT1 == <<"t","1">>
sT12 == <<"t","1","2">>
sSrcIP == <<"S","r","c","I","P">>

FilterDataEl(name, value) ==
    El("filterData", {<<"name", name>>, <<"value", value>>}, <<>>)

\* the i-th component of a matchFilter: a full one, then a bare one, ...
ComponentAt(i) ==
    IF i % 2 = 1
    THEN El("singleFilterComponent", {<<"type", sSrcIP>>},
            <<FilterDataEl(sOperator, sIN), FilterDataEl(sValue, <<"1","0">>)>>)
    ELSE El("singleFilterComponent", {}, <<>>)

\* values of 20 and of 21 characters
sValue20 == SubSeq(LowerAlpha, 1, 20)
sValue21 == SubSeq(LowerAlpha, 1, 21)

ValueComponent(value) ==
    El("singleFilterComponent", {<<"type", sSrcIP>>},
       <<FilterDataEl(sValue, value)>>)

MatchFilterEl(type, n) ==
    El("matchFilter",
       IF type = <<>> THEN {} ELSE {<<"type", type[1]>>},
       [i \in 1..n |-> ComponentAt(i)])

ActionEl(trigger) ==
    El("action", {<<"type", sTRIGGER>>, <<"trigger", trigger>>}, <<>>)

\* the children of a <rule>
RuleBodies ==
    {<<>>}
    \cup {<<MatchFilterEl(<<>>, n)>> : n \in 0..MaxComponents}
    \cup {<<ActionEl(sT1), MatchFilterEl(<<sOr>>, 1)>>}
    \cup {<<MatchFilterEl(<<sOr>>, 1), MatchFilterEl(<<sAnd>>, MaxComponents)>>}
    \cup {<<El("matchFilter", {},
               <<ValueComponent(sValue20), ValueComponent(sValue21)>>)>>}

RuleEl(name, body) ==
    El("rule", IF name = <<>> THEN {} ELSE {<<"name", name[1]>>}, body)

\* rules named "A" with every body; a "Root Rule" without and with a
\* filter; a rule without a name attribute; a rule with name=""
RuleEls ==
    {RuleEl(<<sA>>, b) : b \in RuleBodies}
    \cup {RuleEl(<<sRootRule>>, <<>>),
          RuleEl(<<sRootRule>>, <<MatchFilterEl(<<>>, 1)>>),
          RuleEl(<<>>, <<MatchFilterEl(<<>>, 1)>>),
          RuleEl(<<(<<>>)>>, <<MatchFilterEl(<<>>, 1)>>)}

TriggerEls ==
    {El("trigger", {<<"name", sT1>>, <<"count", <<"5">>>>, <<"timeout", <<"3","0">>>>}, <<>>),
     El("trigger", {<<"name", sT12>>}, <<>>),
     El("trigger", {}, <<>>)}

RulesetEls ==
    {El("ruleset", {}, ts \o rs) :
        ts \in SeqsUpTo(TriggerEls, MaxTriggers),
        rs \in SeqsUpTo(RuleEls, MaxRules)}

\* rulesets of at most one trigger and one rule
SmallRulesetEls ==
    {El("ruleset", {}, ts \o rs) :
        ts \in SeqsUpTo(TriggerEls, 1), rs \in SeqsUpTo(RuleEls, 1)}

\* documents whose root is another element: around a ruleset, or with the
\* triggers and rules directly below it
OtherRootEls ==
    {El("export", {}, <<r>>) : r \in SmallRulesetEls}
    \cup {El("export", {}, r.kids) : r \in SmallRulesetEls}

EmptyText == [kind |-> "empty", root |-> El("", {}, <<>>)]

WellFormedTexts ==
    {[kind |-> "wellformed", root |-> r] : r \in RulesetEls \cup OtherRootEls}

\* text that stops being well-formed after the given tree was read
MalformedTexts ==
    {[kind |-> "malformed", root |-> r] : r \in SmallRulesetEls}

XmlTexts == {EmptyText} \cup WellFormedTexts \cup MalformedTexts

Engines == {"gecko", "webkit"}

(***************************************************************************)
(* The parser run on one text                                              *)
(***************************************************************************)
ParserIdle ==
    /\ xmlContent = EmptyText
    /\ engine = "none"
    /\ parsed = <<>>

LayoutIdle ==
    /\ layoutRef = <<>>
    /\ layoutLast = <<>>
    /\ layoutCount = 0

CoreIdle ==
    /\ customerRules = <<>>
    /\ customerAlarms = <<>>

SynthIdle ==
    /\ genCalls = <<>>

\* FlowDiagram as mounted (Rules.test.jsx 662-670)
FlowIdle ==
    /\ selectedRule = <<>>
    /\ connectedAlarms = <<>>
    /\ eventOverlapAlarms = <<>>
    /\ flowNodes = <<>>
    /\ flowEdges = <<>>
    /\ flowLoading = FALSE
    /\ flowPending = <<>>
    /\ detailsShown = FALSE

NoEventUsage == [total_unique_events |-> 0, events |-> <<>>]

\* Analysis as mounted (Analysis.jsx 59-64)
AnalysisIdle ==
    /\ coverage = <<>>
    /\ relationships = <<>>
    /\ unmatchedRules = <<>>
    /\ unmatchedAlarms = <<>>
    /\ eventUsage = NoEventUsage
    /\ analysisLoading = TRUE
    /\ analysisPending = 0

\* the Rules page not mounted
RulesIdle ==
    /\ selectedCustomerId = 0
    /\ pageRules = {}
    /\ rulesLoading = TRUE
    /\ rulesPending = <<>>
    /\ selectedRules = {}
    /\ generatePending = <<>>
    /\ generating = FALSE
    /\ generateCalls = 0
    /\ lastGenerateCall = <<>>

\* no diagram asked for
DiagramIdle ==
    /\ diagramRule = <<>>
    /\ diagramAlarms = <<>>
    /\ diagramShown = <<>>

\* no invocation made
CallsIdle ==
    /\ invocations = <<>>

\* a JavaScript number and a JavaScript string held by a setting
jsNumber(n) == [num |-> n]

jsString(s) == [str |-> s]

\* INITIAL_SYSTEM_SETTINGS (Settings.jsx 33-65), one text field and the
\* numeric fields of each section that the model edits
INITIAL_SYSTEM_SETTINGS ==
    [general |-> [appName |-> jsString(<<"R", "A", "C", "C">>), maxFileSize |-> jsNumber(16)],
     api |-> [timeout |-> jsNumber(15)],
     customer_defaults |-> [maxAlarmNameLength |-> jsNumber(128)]]

\* the Settings page as mounted (Settings.jsx 83-87), loadSystemSettings
\* (103-123) in flight
SettingsIdle ==
    /\ systemSettings = INITIAL_SYSTEM_SETTINGS
    /\ systemLoading = TRUE
    /\ systemDirty = FALSE
    /\ savePending = <<>>

\* no toast has been asked for (use-toast.jsx 72)
ToastIdle ==
    /\ toasts = <<>>
    /\ lastToastAction = <<>>

\* nothing outside the pages modelled above has happened
UiIdle == ToastIdle /\ SettingsIdle

ParserInit ==
    /\ xmlContent \in XmlTexts
    /\ engine = "none"
    /\ parsed = <<>>
    /\ LayoutIdle
    /\ CoreIdle
    /\ SynthIdle
    /\ FlowIdle
    /\ AnalysisIdle
    /\ UiIdle
    /\ CallsIdle
    /\ DiagramIdle
    /\ RulesIdle

\* one call of parseRuleFilters(xmlContent)
Parse ==
    /\ parsed = <<>>
    /\ \E eng \in Engines :
        /\ engine' = eng
        /\ parsed' = <<parseRuleFilters(xmlContent, eng)>>
    /\ UNCHANGED <<xmlContent, layoutVars, coreVars, synthVars, flowVars, analysisVars, rulesVars, diagramVars, callVars, uiVars>>

ParserNext == Parse

ParserSpec == ParserInit /\ [][ParserNext]_vars

(***************************************************************************)
(* layoutRuleNodes (pages/Rules.test.jsx 645-723, the FlowDiagram page)    *)
(***************************************************************************)
LAYOUT_COLUMNS == <<"trigger", "rule", "filterGroup", "filterComponent">>
COLUMN_GAP == 180
FLOW_PADDING_X == 160
NODE_VERTICAL_GAP == 140
NODE_START_Y == 80

\* the id 'rule-main'
RuleMain == <<"rule-main">>

\* Array.prototype.indexOf, positions counted from 0
indexOf(seq, x) ==
    IF \E i \in 1..Len(seq) : seq[i] = x
    THEN (CHOOSE i \in 1..Len(seq) :
            seq[i] = x /\ \A j \in 1..(i - 1) : seq[j] # x) - 1
    ELSE -1

\* mutant: a type without column goes to the first column
getColumnIndex_UnknownFirst(type) ==
    LET idx == indexOf(LAYOUT_COLUMNS, type)
    IN IF idx = -1 THEN 0 ELSE idx

getColumnIndex(type) ==
    LET idx == indexOf(LAYOUT_COLUMNS, type)
    IN IF idx = -1 THEN indexOf(LAYOUT_COLUMNS, "rule") ELSE idx

\* String.prototype.localeCompare in the collation of the page's locale,
\* which stays the same while the page lives: white space, punctuation,
\* digits, letters; letters first without regard to case, then lower case
\* before upper case.
Collation == <<"\n", " ", "_", "-", ",", ":", ".",
               "0", "1", "2", "3", "4", "5", "6", "7", "8", "9">> \o LowerAlpha

collationRank(c) == indexOf(Collation, toLowerChar(c))

RECURSIVE compareRanks(_, _, _)
compareRanks(a, b, i) ==
    IF i > Len(a) /\ i > Len(b) THEN 0
    ELSE IF i > Len(a) THEN -1
    ELSE IF i > Len(b) THEN 1
    ELSE IF collationRank(a[i]) < collationRank(b[i]) THEN -1
    ELSE IF collationRank(a[i]) > collationRank(b[i]) THEN 1
    ELSE compareRanks(a, b, i + 1)

RECURSIVE compareCase(_, _, _)
compareCase(a, b, i) ==
    IF i > Len(a) THEN 0
    ELSE IF a[i] = b[i] THEN compareCase(a, b, i + 1)
    ELSE IF a[i] = toLowerChar(a[i]) THEN -1
    ELSE 1

localeCompare(a, b) ==
    LET primary == compareRanks(a, b, 1)
    IN IF primary # 0 THEN primary ELSE compareCase(a, b, 1)

\* mutant: a node is put before the nodes that carry its label
RECURSIVE insertByLabel_BeforeEqual(_, _)
insertByLabel_BeforeEqual(sorted, node) ==
    IF sorted = <<>> THEN <<node>>
    ELSE IF localeCompare(node.data.label, Head(sorted).data.label) <= 0
         THEN <<node>> \o sorted
         ELSE <<Head(sorted)>> \o insertByLabel_BeforeEqual(Tail(sorted), node)

\* items.sort((a, b) => (a.data?.label || '').localeCompare(b.data?.label || ''))
\* Array.prototype.sort is stable: equal labels keep their order
RECURSIVE insertByLabel(_, _)
insertByLabel(sorted, node) ==
    IF sorted = <<>> THEN <<node>>
    ELSE IF localeCompare(node.data.label, Head(sorted).data.label) < 0
         THEN <<node>> \o sorted
         ELSE <<Head(sorted)>> \o insertByLabel(Tail(sorted), node)

RECURSIVE sortByLabel(_, _, _)
sortByLabel(items, i, sorted) ==
    IF i > Len(items) THEN sorted
    ELSE sortByLabel(items, i + 1, insertByLabel(sorted, items[i]))

\* node.data?.type || 'rule'   (a missing type is "")
typeOrRule(node) == IF node.data.type = "" THEN "rule" ELSE node.data.type

\* lines 678-687: the bucket of one column, in input order
columnBucket(inputNodes, columnIndex) ==
    SelectSeq(inputNodes, LAMBDA n : getColumnIndex(typeOrRule(n)) = columnIndex)

\* lines 689-692
maxItemsOf(inputNodes) ==
    LET sizes == {Len(columnBucket(inputNodes, c)) : c \in 0..(Len(LAYOUT_COLUMNS) - 1)}
                    \cup {1}
    IN CHOOSE m \in sizes : \A k \in sizes : k <= m

\* lines 699-712: one column, sorted and positioned
arrangeColumn(inputNodes, columnIndex) ==
    LET items == sortByLabel(columnBucket(inputNodes, columnIndex), 1, <<>>)
        columnX == FLOW_PADDING_X + columnIndex * COLUMN_GAP
        offsetY == NODE_START_Y
                    + ((maxItemsOf(inputNodes) - Len(items)) * NODE_VERTICAL_GAP) \div 2
    IN [order \in 1..Len(items) |->
            [items[order] EXCEPT !.position =
                [x |-> columnX, y |-> offsetY + (order - 1) * NODE_VERTICAL_GAP]]]

\* lines 697-720: the columns in ascending order
RECURSIVE arrangeFrom(_, _)
arrangeFrom(inputNodes, columnIndex) ==
    IF columnIndex >= Len(LAYOUT_COLUMNS) THEN <<>>
    ELSE arrangeColumn(inputNodes, columnIndex) \o arrangeFrom(inputNodes, columnIndex + 1)

\* lines 714-716, over the arranged nodes in order
RECURSIVE pickPrimary(_, _, _)
pickPrimary(arranged, i, primaryRuleId) ==
    IF i > Len(arranged) THEN primaryRuleId
    ELSE pickPrimary(arranged, i + 1,
            IF arranged[i].data.type = "rule" /\ primaryRuleId = RuleMain
            THEN arranged[i].id
            ELSE primaryRuleId)

\* mutant: primaryRuleId declared outside the callback, so that it keeps
\* the value the previous call left in it
layoutRuleNodes_KeepsPrimary(inputNodes) ==
    IF inputNodes = <<>> THEN [nodes |-> <<>>, primaryRuleId |-> RuleMain]
    ELSE LET arranged == arrangeFrom(inputNodes, 0)
         IN [nodes |-> arranged,
             primaryRuleId |->
                pickPrimary(arranged, 1,
                    IF layoutLast = <<>> THEN RuleMain
                    ELSE layoutLast[1].output.primaryRuleId)]

layoutRuleNodes(inputNodes) ==
    IF inputNodes = <<>> THEN [nodes |-> <<>>, primaryRuleId |-> RuleMain]
    ELSE LET arranged == arrangeFrom(inputNodes, 0)
         IN [nodes |-> arranged,
             primaryRuleId |-> pickPrimary(arranged, 1, RuleMain)]

(***************************************************************************)
(* The layout called several times on the FlowDiagram page                 *)
(***************************************************************************)
sLowerA == <<"a">>
sUpperB == <<"B">>

\* node lists: the i-th node has the id n_i, a type (known, or missing) and
\* a label
LayoutKinds ==
    {[type |-> "rule", label |-> sLowerA],
     [type |-> "rule", label |-> sUpperB],
     [type |-> "trigger", label |-> sLowerA],
     [type |-> "", label |-> sLowerA]}

LayoutInputs ==
    {[i \in 1..Len(ks) |->
        [id |-> <<"n", i>>,
         type |-> "default",
         position |-> [x |-> 0, y |-> 0],
         data |-> [label |-> ks[i].label, type |-> ks[i].type, details |-> <<>>]]] :
     ks \in SeqsUpTo(LayoutKinds, MaxLayoutNodes)}

LayoutInit ==
    /\ ParserIdle
    /\ LayoutIdle
    /\ CoreIdle
    /\ SynthIdle
    /\ FlowIdle
    /\ AnalysisIdle
    /\ UiIdle
    /\ CallsIdle
    /\ DiagramIdle
    /\ RulesIdle

\* one call of layoutRuleNodes; the caller may keep the first call it
\* chooses to for later comparison
LayoutCall(inputNodes) ==
    /\ layoutCount < MaxLayoutCalls
    /\ \E call \in {[input |-> inputNodes, output |-> layoutRuleNodes(inputNodes)]} :
        /\ layoutLast' = <<call>>
        /\ \/ layoutRef' = layoutRef
           \/ layoutRef = <<>> /\ layoutRef' = <<call>>
    /\ layoutCount' = layoutCount + 1
    /\ UNCHANGED <<parserVars, coreVars, synthVars, flowVars, analysisVars, rulesVars, diagramVars, callVars, uiVars>>

LayoutNext == \E inputNodes \in LayoutInputs : LayoutCall(inputNodes)

LayoutSpec == LayoutInit /\ [][LayoutNext]_vars

(***************************************************************************)
(* layoutRuleNodes called once on a list of nodes of every type            *)
(***************************************************************************)
\* the types of the four columns, a type without column and a missing one
PlacementTypes == {"trigger", "rule", "filterGroup", "filterComponent", "alarm", ""}

\* node lists: the i-th node has the id n_i
PlacementInputs ==
    {[i \in 1..Len(ks) |->
        [id |-> <<"n", i>>,
         type |-> "default",
         position |-> [x |-> 0, y |-> 0],
         data |-> [label |-> ks[i][2], type |-> ks[i][1], details |-> <<>>]]] :
     ks \in SeqsUpTo(PlacementTypes \X {sLowerA, sUpperB}, MaxPlacedNodes)}

\* one call of layoutRuleNodes
Place(inputNodes) ==
    /\ layoutCount = 0
    /\ layoutLast' = <<[input |-> inputNodes, output |-> layoutRuleNodes(inputNodes)]>>
    /\ layoutCount' = 1
    /\ UNCHANGED layoutRef
    /\ UNCHANGED <<parserVars, coreVars, synthVars, flowVars, analysisVars, rulesVars,
                   diagramVars, callVars, uiVars>>

PlacementNext == \E inputNodes \in PlacementInputs : Place(inputNodes)

PlacementSpec == LayoutInit /\ [][PlacementNext]_vars

(***************************************************************************)
(* The backend core, modelled from spec.md (the Flask sources are not part *)
(* of the frontend tree): data model (section 3), RelationshipDetector     *)
(* (4.3), CoverageAnalyzer (4.4), AlarmSynthesizer (4.5).                  *)
(* A rule is [id, rule_id, name, severity, sig_id, xml_content,            *)
(* windows_event_ids], sig_id being <<>> when absent; an alarm is          *)
(* [id, customer_id, name, severity, match_field, match_value,             *)
(* windows_event_ids, min_version, assignee_id,                            *)
(* esc_assignee_id, note].                                                 *)
(***************************************************************************)
CustomerId == 1

isSpace(c) == c \in {" ", "\t", "\n"}

\* leading and trailing white space removed
RECURSIVE trimLeft(_)
trimLeft(s) == IF s # <<>> /\ isSpace(Head(s)) THEN trimLeft(Tail(s)) ELSE s

RECURSIVE trimRight(_)
trimRight(s) ==
    IF s # <<>> /\ isSpace(s[Len(s)]) THEN trimRight(SubSeq(s, 1, Len(s) - 1)) ELSE s

trim(s) == trimRight(trimLeft(s))

\* 4.3: "under normalization (case-insensitive, trimmed)"
normalize(s) == toLowerCase(trim(s))

\* 4.3 primary evidence
primaryMatch(rule, alarm) ==
    /\ rule.sig_id # <<>>
    /\ normalize(rule.sig_id[1]) = normalize(alarm.match_value)

\* 4.3 secondary evidence
eventOverlap(rule, alarm) ==
    rule.windows_event_ids \cap alarm.windows_event_ids # {}

\* all <<rule, alarm>> pairs, rule by rule
Pairs(rs, as) ==
    [k \in 1..(Len(rs) * Len(as)) |->
        <<rs[((k - 1) \div Len(as)) + 1], as[((k - 1) % Len(as)) + 1]>>]

\* 4.3: matched_fields records every field that contributed
relationshipOf(rule, alarm) ==
    [rule_id |-> rule.id,
     alarm_id |-> alarm.id,
     matched_fields |->
        (IF primaryMatch(rule, alarm) THEN {"sig_id"} ELSE {})
        \cup (IF eventOverlap(rule, alarm) THEN {"windows_event_ids"} ELSE {})]

relationshipsOfPairs(pairs) ==
    [k \in 1..Len(pairs) |-> relationshipOf(pairs[k][1], pairs[k][2])]

\* mutant: an overlap of event ids is enough for a Relationship
detectRelationships_OverlapCounts(rs, as) ==
    [relationships |->
        relationshipsOfPairs(SelectSeq(Pairs(rs, as),
            LAMBDA p : primaryMatch(p[1], p[2]) \/ eventOverlap(p[1], p[2]))),
     unmatchedRules |-> SelectSeq(rs, LAMBDA r :
        \A j \in 1..Len(as) : ~(primaryMatch(r, as[j]) \/ eventOverlap(r, as[j]))),
     unmatchedAlarms |-> SelectSeq(as, LAMBDA a :
        \A i \in 1..Len(rs) : ~(primaryMatch(rs[i], a) \/ eventOverlap(rs[i], a))),
     eventOverlapOnly |-> <<>>]

\* 4.3 / section 6: detectRelationships(rules, alarms).  A rule or an alarm
\* is unmatched when it appears in no Relationship, that is, when it has no
\* primary match.
detectRelationships(rs, as) ==
    [relationships |->
        relationshipsOfPairs(SelectSeq(Pairs(rs, as),
            LAMBDA p : primaryMatch(p[1], p[2]))),
     unmatchedRules |-> SelectSeq(rs, LAMBDA r :
        \A j \in 1..Len(as) : ~primaryMatch(r, as[j])),
     unmatchedAlarms |-> SelectSeq(as, LAMBDA a :
        \A i \in 1..Len(rs) : ~primaryMatch(rs[i], a)),
     eventOverlapOnly |->
        relationshipsOfPairs(SelectSeq(Pairs(rs, as),
            LAMBDA p : ~primaryMatch(p[1], p[2]) /\ eventOverlap(p[1], p[2])))]

\* numbers: the fraction num/den with den > 0, or NaN, or Infinity
Num(n, d) == [kind |-> "finite", num |-> n, den |-> d]

NaN == [kind |-> "nan", num |-> 0, den |-> 1]

Infinity == [kind |-> "inf", num |-> 1, den |-> 1]

\* the distinct values of a field in a list of relationships
relatedIds(rels, field) ==
    {rels[k][field] : k \in 1..Len(rels)}

\* 4.4 / section 6: computeCoverage(rules, alarms, relationships)
computeCoverage(rs, as, rels) ==
    LET total_rules == Len(rs)
        matched_rules == Cardinality(relatedIds(rels, "rule_id"))
    IN [total_rules |-> total_rules,
        matched_rules |-> matched_rules,
        total_alarms |-> Len(as),
        matched_alarms |-> Cardinality(relatedIds(rels, "alarm_id")),
        coverage_percentage |->
            IF total_rules = 0 THEN Num(0, 1)
            ELSE Num(matched_rules * 100, total_rules)]

\* the analysis endpoints recompute from the customer's rules and alarms
\* (section 3: a Relationship is "recomputed on demand")
getRelationships == detectRelationships(customerRules, customerAlarms).relationships

getUnmatchedRules == detectRelationships(customerRules, customerAlarms).unmatchedRules

getUnmatchedAlarms == detectRelationships(customerRules, customerAlarms).unmatchedAlarms

getCoverage == computeCoverage(customerRules, customerAlarms, getRelationships)

\* the settings in effect (defaults of pages/Settings.jsx 56-63)
sDSIDSigID == <<"D","S","I","D","S","i","g","I","D">>
sAlarmNameToken == <<"[","$","A","l","a","r","m"," ","N","a","m","e","]">>
sSourceIpToken == <<"[","$","S","o","u","r","c","e"," ","I","P","]">>
sMinVersion == <<"1","1",".","6",".","1","4">>

DefaultSettings ==
    [maxAlarmNameLength |-> 128,
     defaultSeverity |-> 50,
     defaultConditionType |-> 14,
     matchField |-> sDSIDSigID,
     summaryTemplate |-> sSourceIpToken \o NL \o sAlarmNameToken,
     defaultAssignee |-> 8199,
     defaultEscAssignee |-> 57355,
     defaultMinVersion |-> sMinVersion]

\* 4.5 step 5: every occurrence of a known placeholder is substituted, any
\* other text, unknown placeholders included, stays as it is
RECURSIVE fillTemplate(_, _)
fillTemplate(template, alarmName) ==
    IF template = <<>> THEN <<>>
    ELSE IF Len(template) >= Len(sAlarmNameToken)
            /\ SubSeq(template, 1, Len(sAlarmNameToken)) = sAlarmNameToken
    THEN alarmName
            \o fillTemplate(SubSeq(template, Len(sAlarmNameToken) + 1, Len(template)),
                            alarmName)
    ELSE <<Head(template)>> \o fillTemplate(Tail(template), alarmName)

\* 4.5 step 3: the dedup key (customer_id, match_field, match_value)
dedupKey(alarm) == <<alarm.customer_id, alarm.match_field, alarm.match_value>>

nextAlarmId(as) ==
    1 + (IF as = <<>> THEN 0
         ELSE CHOOSE m \in {as[k].id : k \in 1..Len(as)} :
                \A k \in 1..Len(as) : as[k].id <= m)

\* mutant: only the lower end of the range is looked at
outsideRange_MinOnly(rule, range) ==
    range # <<>> /\ rule.severity < range[1].min

\* 4.5 step 1: a severity filter is given and rule.severity is outside it
outsideRange(rule, range) ==
    range # <<>> /\ (rule.severity < range[1].min \/ rule.severity > range[1].max)

\* mutant: the duplicate check looks at the alarms that existed before the
\* call only, not at those created earlier in the same batch
synthesizeRule_StoredOnly(rule, settings, range, st) ==
    IF outsideRange(rule, range)
    THEN [st EXCEPT !.skipped =
            Append(@, [rule_id |-> rule.id, reason |-> "severity out of range"])]
    ELSE IF rule.sig_id = <<>>
    THEN [st EXCEPT !.skipped =
            Append(@, [rule_id |-> rule.id, reason |-> "no signature id"])]
    ELSE IF \E k \in 1..(Len(st.alarms) - Len(st.created)) :
                dedupKey(st.alarms[k]) = <<CustomerId, settings.matchField, rule.sig_id[1]>>
    THEN [st EXCEPT !.skipped =
            Append(@, [rule_id |-> rule.id, reason |-> "duplicate signature"])]
    ELSE LET name == substring0(rule.name, settings.maxAlarmNameLength)
             alarm == [id |-> nextAlarmId(st.alarms),
                       customer_id |-> CustomerId,
                       name |-> name,
                       severity |-> rule.severity,
                       match_field |-> settings.matchField,
                       match_value |-> rule.sig_id[1],
                       windows_event_ids |-> {},
                       min_version |-> settings.defaultMinVersion,
                       assignee_id |-> settings.defaultAssignee,
                       esc_assignee_id |-> settings.defaultEscAssignee,
                       note |-> fillTemplate(settings.summaryTemplate, name)]
         IN [st EXCEPT !.created = Append(@, alarm), !.alarms = Append(@, alarm)]

\* 4.5, steps 1-6 for one rule; st is [alarms, created, skipped]
synthesizeRule(rule, settings, range, st) ==
    IF outsideRange(rule, range)
    THEN [st EXCEPT !.skipped =
            Append(@, [rule_id |-> rule.id, reason |-> "severity out of range"])]
    ELSE IF rule.sig_id = <<>>
    THEN [st EXCEPT !.skipped =
            Append(@, [rule_id |-> rule.id, reason |-> "no signature id"])]
    ELSE IF \E k \in 1..Len(st.alarms) :
                dedupKey(st.alarms[k]) = <<CustomerId, settings.matchField, rule.sig_id[1]>>
    THEN [st EXCEPT !.skipped =
            Append(@, [rule_id |-> rule.id, reason |-> "duplicate signature"])]
    ELSE LET name == substring0(rule.name, settings.maxAlarmNameLength)
             alarm == [id |-> nextAlarmId(st.alarms),
                       customer_id |-> CustomerId,
                       name |-> name,
                       severity |-> rule.severity,
                       match_field |-> settings.matchField,
                       match_value |-> rule.sig_id[1],
                       windows_event_ids |-> {},
                       min_version |-> settings.defaultMinVersion,
                       assignee_id |-> settings.defaultAssignee,
                       esc_assignee_id |-> settings.defaultEscAssignee,
                       note |-> fillTemplate(settings.summaryTemplate, name)]
         IN [st EXCEPT !.created = Append(@, alarm), !.alarms = Append(@, alarm)]

RECURSIVE synthesizeFrom(_, _, _, _, _)
synthesizeFrom(selected, i, settings, range, st) ==
    IF i > Len(selected) THEN st
    ELSE synthesizeFrom(selected, i + 1, settings, range,
                        synthesizeRule(selected[i], settings, range, st))

\* 4.5 / section 6: synthesizeAlarms(rules, settings, severityRange?), run
\* against the alarms the customer already has; a range with min > max is a
\* ConfigurationError that fails the call (section 7)
synthesizeAlarms(selected, settings, range, existing) ==
    IF range # <<>> /\ range[1].min > range[1].max
    THEN [error |-> "ConfigurationError", alarms |-> existing,
          created |-> <<>>, skipped |-> <<>>]
    ELSE LET st == synthesizeFrom(selected, 1, settings, range,
                        [alarms |-> existing, created |-> <<>>, skipped |-> <<>>])
         IN [error |-> "", alarms |-> st.alarms,
             created |-> st.created, skipped |-> st.skipped]

(***************************************************************************)
(* Alarm generation: POST /customers/{id}/rules/generate-alarms            *)
(* (lib/api.js 157, pages/Rules.jsx 118-135), served by the synthesizer.   *)
(***************************************************************************)
sSig105 == <<"1","0","-","5">>
sSig471 == <<"4","7","-","1">>
sSigA1 == <<"a","-","1">>

CoreRule(id, sig, severity, events, xml) ==
    [id |-> id, rule_id |-> <<"r">> \o numStr(id), name |-> <<"R">> \o numStr(id),
     severity |-> severity, sig_id |-> sig, xml_content |-> xml,
     windows_event_ids |-> events]

CoreAlarm(id, field, value, events) ==
    [id |-> id, customer_id |-> CustomerId, name |-> <<"M">> \o numStr(id),
     severity |-> 50, match_field |-> field, match_value |-> value,
     windows_event_ids |-> events, min_version |-> sMinVersion,
     assignee_id |-> 8199, esc_assignee_id |-> 57355, note |-> <<>>]

SynthRuleKinds ==
    {[sig |-> <<>>, severity |-> 70],
     [sig |-> <<sSig105>>, severity |-> 50],
     [sig |-> <<sSig105>>, severity |-> 70]}

\* three rules with signatures of their own and severities 50, 70 and 90
SeverityExampleRules ==
    <<CoreRule(1, <<sSig105>>, 50, {}, EmptyText),
      CoreRule(2, <<sSig471>>, 70, {}, EmptyText),
      CoreRule(3, <<sSigA1>>, 90, {}, EmptyText)>>

SynthRuleLists ==
    {[i \in 1..Len(ks) |-> CoreRule(i, ks[i].sig, ks[i].severity, {}, EmptyText)] :
        ks \in SeqsUpTo(SynthRuleKinds, MaxCoreRules)}
    \cup {SeverityExampleRules}

\* alarms the customer has before the first generation, one per dedup key:
\* the signature under the field the settings name, and under another field
sSigID == <<"S","i","g","I","D">>

SynthAlarmKinds ==
    {[field |-> sDSIDSigID, value |-> sSig105],
     [field |-> sSigID, value |-> sSig105]}

SynthAlarmLists ==
    {[i \in 1..Len(ks) |-> CoreAlarm(i, ks[i].field, ks[i].value, {})] :
        ks \in {q \in SeqsUpTo(SynthAlarmKinds, MaxCoreAlarms) :
                    \A i, j \in 1..Len(q) : q[i] = q[j] => i = j}}

SeverityRanges ==
    {<<>>, <<[min |-> 60, max |-> 100]>>, <<[min |-> 50, max |-> 70]>>,
     <<[min |-> 100, max |-> 60]>>}


\* the rules with the given ids, in the order the customer's rules have
rulesWithIds(ids) == SelectSeq(customerRules, LAMBDA r : r.id \in ids)

SynthInit ==
    /\ ParserIdle
    /\ LayoutIdle
    /\ customerRules \in SynthRuleLists
    /\ customerAlarms \in SynthAlarmLists
    /\ SynthIdle
    /\ FlowIdle
    /\ AnalysisIdle
    /\ UiIdle
    /\ CallsIdle
    /\ DiagramIdle
    /\ RulesIdle

\* one generate-alarms request for a non-empty selection of rule ids
GenerateAlarms(ids, range) ==
    /\ Len(genCalls) < MaxGenCalls
    /\ ids # {}
    /\ LET result == synthesizeAlarms(rulesWithIds(ids), DefaultSettings,
                                      range, customerAlarms)
       IN /\ customerAlarms' = result.alarms
          /\ genCalls' = Append(genCalls,
                [selection |-> ids, matchField |-> DefaultSettings.matchField,
                 range |-> range, before |-> customerAlarms, result |-> result])
    /\ UNCHANGED <<parserVars, layoutVars, customerRules, flowVars, analysisVars, rulesVars, diagramVars, callVars, uiVars>>

SynthNext ==
    \E ids \in SUBSET {customerRules[k].id : k \in 1..Len(customerRules)} :
        \E range \in SeverityRanges : GenerateAlarms(ids, range)

SynthSpec == SynthInit /\ [][SynthNext]_vars

(***************************************************************************)
(* Requests in flight                                                      *)
(***************************************************************************)
\* the fetches in flight settle in any order, so the order they were
\* started in is not kept: flowPending is held in ascending order
withPending(pending, ruleId) ==
    SelectSeq(pending, LAMBDA id : id <= ruleId) \o <<ruleId>>
        \o SelectSeq(pending, LAMBDA id : id > ruleId)

\* fetches in flight for the same rule are alike: the first of them stands
\* for each
firstOfItsRule(pending, k) ==
    /\ k \in 1..Len(pending)
    /\ IF k = 1 THEN TRUE ELSE pending[k - 1] # pending[k]

\* the sequence without its k-th element
without(seq, k) == SubSeq(seq, 1, k - 1) \o SubSeq(seq, k + 1, Len(seq))

(***************************************************************************)
(* The Rules page (pages/Rules.jsx) under the customer selector of the     *)
(* sidebar (layout/Sidebar.jsx 58-67, context/AppContext.jsx).             *)
(***************************************************************************)
CustomerIds == {1, 2}

\* selectedCustomerId is null
NoCustomer == 0

\* the ids of the rules each customer has in the store; an id belongs to
\* one customer
ruleIdsOf(customerId) ==
    {(customerId - 1) * MaxRulesPerCustomer + k : k \in 1..MaxRulesPerCustomer}

\* Rules.jsx 393-417: without a customer, or while loading, the page shows
\* none of its controls
rulesPageShown == selectedCustomerId # NoCustomer /\ ~rulesLoading

\* Rules.jsx 299-335 with the search term and the filters as mounted
filteredRules == pageRules

\* Rules.jsx 513: the Generate Alarms button is disabled
generateDisabled == selectedRules = {} \/ generating

\* mutant: the selection is not sent
generateAlarmsCall_NoIds(customerId, ruleIds) ==
    [customerId |-> customerId, rule_ids |-> {}]

\* ruleAPI.generateAlarms(customerId, ruleIds), lib/api.js 157
generateAlarmsCall(customerId, ruleIds) ==
    [customerId |-> customerId, rule_ids |-> ruleIds]

\* the page as mounted (Rules.jsx 40-58) and after the effect of 80-84
RulesInit ==
    /\ ParserIdle
    /\ LayoutIdle
    /\ CoreIdle
    /\ SynthIdle
    /\ FlowIdle
    /\ AnalysisIdle
    /\ UiIdle
    /\ CallsIdle
    /\ DiagramIdle
    /\ selectedCustomerId \in {NoCustomer} \cup CustomerIds
    /\ pageRules = {}
    /\ rulesLoading = TRUE
    /\ rulesPending = IF selectedCustomerId = NoCustomer THEN <<>>
                      ELSE <<selectedCustomerId>>
    /\ selectedRules = {}
    /\ generatePending = <<>>
    /\ generating = FALSE
    /\ generateCalls = 0
    /\ lastGenerateCall = <<>>

rulesFrame == <<parserVars, layoutVars, coreVars, synthVars, flowVars, analysisVars,
               diagramVars, callVars, uiVars>>

\* Sidebar.jsx 58 and 67, Header.jsx 52: another customer, or none, is
\* chosen; the effect of Rules.jsx 80-84 then starts fetchRules (62-78)
SetSelectedCustomerId(customerId) ==
    /\ customerId # selectedCustomerId
    /\ selectedCustomerId' = customerId
    /\ IF customerId = NoCustomer
       THEN UNCHANGED <<rulesLoading, rulesPending>>
       ELSE /\ Len(rulesPending) < MaxPending
            /\ rulesLoading' = TRUE
            /\ rulesPending' = withPending(rulesPending, customerId)
    /\ UNCHANGED <<pageRules, selectedRules, generatePending, generating, generateCalls,
                   lastGenerateCall>>
    /\ UNCHANGED rulesFrame

\* fetchRules after its await (Rules.jsx 70, 75-77): the response lists the
\* rules of the customer the request was made for
FetchRulesDone(k) ==
    /\ firstOfItsRule(rulesPending, k)
    /\ pageRules' = ruleIdsOf(rulesPending[k])
    /\ rulesLoading' = FALSE
    /\ rulesPending' = without(rulesPending, k)
    /\ UNCHANGED <<selectedCustomerId, selectedRules, generatePending, generating,
                   generateCalls, lastGenerateCall>>
    /\ UNCHANGED rulesFrame

\* fetchRules when the request fails (Rules.jsx 71-77)
FetchRulesFail(k) ==
    /\ firstOfItsRule(rulesPending, k)
    /\ rulesLoading' = FALSE
    /\ rulesPending' = without(rulesPending, k)
    /\ UNCHANGED <<selectedCustomerId, pageRules, selectedRules, generatePending, generating,
                   generateCalls, lastGenerateCall>>
    /\ UNCHANGED rulesFrame

\* handleRuleSelection (Rules.jsx 98-108) from the row of a listed rule
handleRuleSelection(ruleId) ==
    /\ rulesPageShown
    /\ ruleId \in filteredRules
    /\ selectedRules' = IF ruleId \in selectedRules
                        THEN selectedRules \ {ruleId}
                        ELSE selectedRules \cup {ruleId}
    /\ UNCHANGED <<selectedCustomerId, pageRules, rulesLoading, rulesPending,
                   generatePending, generating, generateCalls, lastGenerateCall>>
    /\ UNCHANGED rulesFrame

\* handleSelectAll (Rules.jsx 110-116) from the head of the table, which is
\* there when rules are listed (608-629)
handleSelectAll ==
    /\ rulesPageShown
    /\ filteredRules # {}
    /\ selectedRules' = IF Cardinality(selectedRules) = Cardinality(filteredRules)
                        THEN {}
                        ELSE filteredRules
    /\ UNCHANGED <<selectedCustomerId, pageRules, rulesLoading, rulesPending,
                   generatePending, generating, generateCalls, lastGenerateCall>>
    /\ UNCHANGED rulesFrame

\* handleGenerateAlarms (Rules.jsx 118-125) up to its await
handleGenerateAlarms ==
    IF selectedRules = {}
    THEN UNCHANGED vars
    ELSE /\ generating' = TRUE
         /\ generatePending' = <<selectedCustomerId>>
         /\ generateCalls' = generateCalls + 1
         /\ lastGenerateCall' =
                <<generateAlarmsCall(selectedCustomerId, selectedRules)>>
         /\ UNCHANGED <<selectedCustomerId, pageRules, rulesLoading, rulesPending,
                        selectedRules>>
         /\ UNCHANGED rulesFrame

\* the Generate Alarms button is activated (Rules.jsx 511-518); a disabled
\* button does not call its handler
ClickGenerateAlarms ==
    /\ rulesPageShown
    /\ generateCalls < MaxGenCalls
    /\ IF generateDisabled THEN UNCHANGED vars ELSE handleGenerateAlarms

\* handleGenerateAlarms after its await (Rules.jsx 126-128, 133-134):
\* fetchRules is the one of the render the button was activated in
GenerateAlarmsDone ==
    /\ generatePending # <<>>
    /\ Len(rulesPending) < MaxPending
    /\ selectedRules' = {}
    /\ rulesLoading' = TRUE
    /\ rulesPending' = withPending(rulesPending, generatePending[1])
    /\ generatePending' = <<>>
    /\ generating' = FALSE
    /\ UNCHANGED <<selectedCustomerId, pageRules, generateCalls, lastGenerateCall>>
    /\ UNCHANGED rulesFrame

\* mutant: the failure path clears the selection as the success path does
GenerateAlarmsFail_ClearsSelection ==
    /\ generatePending # <<>>
    /\ generatePending' = <<>>
    /\ generating' = FALSE
    /\ selectedRules' = {}
    /\ UNCHANGED <<selectedCustomerId, pageRules, rulesLoading, rulesPending,
                   generateCalls, lastGenerateCall>>
    /\ UNCHANGED rulesFrame

\* handleGenerateAlarms when the request fails (Rules.jsx 129-134)
GenerateAlarmsFail ==
    /\ generatePending # <<>>
    /\ generatePending' = <<>>
    /\ generating' = FALSE
    /\ UNCHANGED <<selectedCustomerId, pageRules, rulesLoading, rulesPending,
                   selectedRules, generateCalls, lastGenerateCall>>
    /\ UNCHANGED rulesFrame

RulesSelectCustomer ==
    \E customerId \in {NoCustomer} \cup CustomerIds : SetSelectedCustomerId(customerId)

RulesFetchDone == \E k \in 1..MaxPending : FetchRulesDone(k)

RulesFetchFail == \E k \in 1..MaxPending : FetchRulesFail(k)

RulesToggle ==
    \E ruleId \in UNION {ruleIdsOf(c) : c \in CustomerIds} : handleRuleSelection(ruleId)

RulesNext ==
    \/ RulesSelectCustomer
    \/ RulesFetchDone
    \/ RulesFetchFail
    \/ RulesToggle
    \/ handleSelectAll
    \/ ClickGenerateAlarms
    \/ GenerateAlarmsDone
    \/ GenerateAlarmsFail

RulesSpec == RulesInit /\ [][RulesNext]_vars

(***************************************************************************)
(* The rules and alarms of the customer whose pages are shown.             *)
(***************************************************************************)
sMatchA1 == <<" ","A","-","1"," ">>
sMatch99 == <<"9","-","9">>

\* a ruleset of one trigger and one rule that refers to it
FlowRuleset ==
    El("ruleset", {},
       <<El("trigger", {<<"name", sT1>>}, <<>>),
         El("rule", {<<"name", sA>>}, <<ActionEl(sT1), MatchFilterEl(<<sOr>>, 1)>>)>>)

PageRuleKinds ==
    {[sig |-> <<sSig471>>, events |-> {4625},
      xml |-> [kind |-> "wellformed", root |-> FlowRuleset]],
     [sig |-> <<>>, events |-> {4625}, xml |-> EmptyText],
     [sig |-> <<sSigA1>>, events |-> {},
      xml |-> [kind |-> "malformed", root |-> FlowRuleset]],
     [sig |-> <<sSig471>>, events |-> {},
      xml |-> [kind |-> "wellformed", root |-> El("ruleset", {}, <<>>)]]}

RuleListsOf(kinds) ==
    {[i \in 1..Len(ks) |-> CoreRule(i, ks[i].sig, 50, ks[i].events, ks[i].xml)] :
        ks \in SeqsUpTo(kinds, MaxCoreRules)}

PageRuleLists == RuleListsOf(PageRuleKinds)

PageAlarmKinds ==
    {[value |-> sSig471, events |-> {4624, 4625}],
     [value |-> sMatchA1, events |-> {}],
     [value |-> sMatch99, events |-> {4624, 4625}]}

AlarmListsOf(kinds) ==
    {[i \in 1..Len(ks) |-> CoreAlarm(i, sDSIDSigID, ks[i].value, ks[i].events)] :
        ks \in SeqsUpTo(kinds, MaxCoreAlarms)}

PageAlarmLists == AlarmListsOf(PageAlarmKinds)

\* the customers of the FlowDiagram page: rules whose XML parses, is empty
\* or is broken (that one with the signature of an alarm); alarms that
\* share events with them, with and without the signature
FlowRuleLists ==
    RuleListsOf({k \in PageRuleKinds : k.events # {}}
                \cup {[sig |-> <<sSig471>>, events |-> {},
                       xml |-> [kind |-> "malformed", root |-> FlowRuleset]]})

FlowAlarmLists == AlarmListsOf({k \in PageAlarmKinds : k.events # {}})

(***************************************************************************)
(* FlowDiagram (pages/Rules.test.jsx 660-905): generateFlowDiagram and     *)
(* fetchRuleDetails.  windows_event_ids, an array of numbers in the page,  *)
(* is the set of its members here and is printed in ascending order.       *)
(***************************************************************************)
sEvents == NL \o <<"E","v","e","n","t","s",":"," ">>
sId == NL \o <<"I","D",":"," ">>
sSeverity == NL \o <<"S","e","v","e","r","i","t","y",":"," ">>
sMatch == NL \o <<"M","a","t","c","h",":"," ">>
sNoAlarms == <<"N","o"," ","m","a","t","c","h","i","n","g"," ","a","l","a","r","m","s"," ","f","o","u","n","d">>

\* ids.join(', ')
RECURSIVE joinIds(_)
joinIds(ids) ==
    IF ids = {} THEN <<>>
    ELSE LET least == CHOOSE m \in ids : \A k \in ids : m <= k
         IN numStr(least)
            \o (IF ids = {least} THEN <<>> ELSE <<",", " ">> \o joinIds(ids \ {least}))

\* x.windows_event_ids?.length ? `\nEvents: ${...join(', ')}` : ''
eventLabel(ids) == IF ids = {} THEN <<>> ELSE sEvents \o joinIds(ids)

\* the x of the alarm column: FLOW_PADDING_X + (LAYOUT_COLUMNS.length + 0.8) * COLUMN_GAP
alarmColumnX == FLOW_PADDING_X + ((Len(LAYOUT_COLUMNS) * 10 + 8) * COLUMN_GAP) \div 10

\* lines 771-791: the node shown when the XML gives no nodes
fallbackRuleNode(rule) ==
    [id |-> RuleMain,
     type |-> "default",
     position |-> [x |-> FLOW_PADDING_X + COLUMN_GAP, y |-> NODE_START_Y],
     data |-> [label |-> rule.name \o sId \o rule.rule_id
                         \o sSeverity \o numStr(rule.severity)
                         \o eventLabel(rule.windows_event_ids),
               type |-> "rule",
               details |-> <<>>]]

\* lines 794-821; index counts from 0
alarmNode(alarm, index) ==
    [id |-> <<"alarm", alarm.id>>,
     type |-> "default",
     position |-> [x |-> alarmColumnX, y |-> NODE_START_Y + index * NODE_VERTICAL_GAP],
     data |-> [label |-> alarm.name \o sSeverity \o numStr(alarm.severity)
                         \o sMatch \o alarm.match_value
                         \o eventLabel(alarm.windows_event_ids),
               type |-> "alarm",
               alarm |-> alarm]]

\* lines 823-831
alarmEdge(primaryRuleNodeId, alarm) ==
    [id |-> <<"edge-rule-alarm", alarm.id>>,
     source |-> primaryRuleNodeId,
     target |-> <<"alarm", alarm.id>>,
     animated |-> TRUE,
     label |-> "triggers"]

\* lines 834-856
noAlarmsNode ==
    [id |-> <<"no-alarms">>,
     type |-> "default",
     position |-> [x |-> alarmColumnX, y |-> NODE_START_Y],
     data |-> [label |-> sNoAlarms, type |-> "info", details |-> <<>>]]

\* alarms.forEach (lines 794-832)
alarmNodes(alarms) == [i \in 1..Len(alarms) |-> alarmNode(alarms[i], i - 1)]

alarmEdges(primaryRuleNodeId, alarms) ==
    [i \in 1..Len(alarms) |-> alarmEdge(primaryRuleNodeId, alarms[i])]

\* lines 753-766: the parsed nodes, the rule nodes with the events added
withRuleEvents(parsedNodes, rule) ==
    [i \in 1..Len(parsedNodes) |->
        IF parsedNodes[i].data.type = "rule"
        THEN [parsedNodes[i] EXCEPT
                !.data.label = @ \o eventLabel(rule.windows_event_ids)]
        ELSE parsedNodes[i]]

\* mutant: a failed parse ends the generation, nothing is added
diagramOf_FailureAborts(ruleFlow, rule, alarms) ==
    [nodes |-> IF ruleFlow.isNull THEN <<>> ELSE ruleFlow.nodes, edges |-> <<>>]

\* lines 746-859, ruleFlow being the result of parseRuleFilters; the result
\* is what setNodes and setEdges receive
diagramOf(ruleFlow, rule, alarms) ==
    LET summary == IF Len(alarms) = 0 THEN <<noAlarmsNode>> ELSE <<>>
    IN IF ~ruleFlow.isNull /\ Len(ruleFlow.nodes) > 0
       THEN CHOOSE diagram \in
                {[nodes |-> laidOut.nodes \o alarmNodes(alarms) \o summary,
                  edges |-> ruleFlow.edges \o alarmEdges(laidOut.primaryRuleId, alarms)] :
                 laidOut \in {layoutRuleNodes(withRuleEvents(ruleFlow.nodes, rule))}} : TRUE
       ELSE [nodes |-> <<fallbackRuleNode(rule)>> \o alarmNodes(alarms) \o summary,
             edges |-> alarmEdges(RuleMain, alarms)]

\* lines 739-860
generateFlowDiagram(rule, alarms, eng) ==
    CHOOSE diagram \in
        {diagramOf(ruleFlow, rule, alarms) :
            ruleFlow \in {parseRuleFilters(rule.xml_content, eng)}} : TRUE

\* lines 879-881
directAlarmIds(rule, rels) ==
    LET direct == SelectSeq(rels, LAMBDA rel : rel.rule_id = rule.id)
    IN [k \in 1..Len(direct) |-> direct[k].alarm_id]

\* alarmMap.get(id): the last alarm of the list with that id, if any
alarmMapGet(allAlarms, id) ==
    LET hits == SelectSeq(allAlarms, LAMBDA alarm : alarm.id = id)
    IN IF hits = <<>> THEN <<>> ELSE <<hits[Len(hits)]>>

\* lines 882-884: .map(id => alarmMap.get(id)).filter(Boolean)
connectedOf(rule, allAlarms, rels) ==
    LET ids == directAlarmIds(rule, rels)
        found == SelectSeq([k \in 1..Len(ids) |-> alarmMapGet(allAlarms, ids[k])],
                           LAMBDA hit : hit # <<>>)
    IN [k \in 1..Len(found) |-> found[k][1]]

\* mutant: alarms of the connected list are not left out
overlapAlarmsOf_KeepsConnected(rule, allAlarms, connected) ==
    LET ruleEventIds == rule.windows_event_ids
    IN SelectSeq(allAlarms, LAMBDA alarm :
            /\ ~(ruleEventIds = {} \/ alarm.windows_event_ids = {})
            /\ \E eventId \in alarm.windows_event_ids : eventId \in ruleEventIds)

\* lines 877, 885-892
overlapAlarmsOf(rule, allAlarms, connected) ==
    LET ruleEventIds == rule.windows_event_ids
        connectedIdSet == {connected[k].id : k \in 1..Len(connected)}
    IN SelectSeq(allAlarms, LAMBDA alarm :
            /\ alarm.id \notin connectedIdSet
            /\ ~(ruleEventIds = {} \/ alarm.windows_event_ids = {})
            /\ \E eventId \in alarm.windows_event_ids : eventId \in ruleEventIds)

FlowInit ==
    /\ xmlContent = EmptyText
    /\ engine \in Engines
    /\ parsed = <<>>
    /\ LayoutIdle
    /\ customerRules \in FlowRuleLists
    /\ customerAlarms \in FlowAlarmLists
    /\ SynthIdle
    /\ FlowIdle
    /\ AnalysisIdle
    /\ UiIdle
    /\ CallsIdle
    /\ DiagramIdle
    /\ RulesIdle

\* fetchRuleDetails(ruleId) up to its await (lines 863-871); the rule
\* cards stay clickable while a fetch is in flight (line 1003)
FetchRuleDetailsStart(ruleId) ==
    /\ Len(flowPending) < MaxPending
    /\ flowLoading' = TRUE
    /\ connectedAlarms' = <<>>
    /\ eventOverlapAlarms' = <<>>
    /\ detailsShown' = FALSE
    /\ flowPending' = withPending(flowPending, ruleId)
    /\ UNCHANGED <<selectedRule, flowNodes, flowEdges>>
    /\ UNCHANGED <<parserVars, layoutVars, coreVars, synthVars, analysisVars, rulesVars, diagramVars, callVars, uiVars>>

\* the three responses arrive (lines 873-899, 903)
FetchRuleDetailsDone(k) ==
    /\ firstOfItsRule(flowPending, k)
    /\ \E rule \in {customerRules[i] : i \in 1..Len(customerRules)} :
        /\ rule.id = flowPending[k]
        /\ \E connected \in {connectedOf(rule, customerAlarms, getRelationships)} :
            /\ selectedRule' = <<rule>>
            /\ connectedAlarms' = connected
            /\ eventOverlapAlarms' = overlapAlarmsOf(rule, customerAlarms, connected)
            /\ \E diagram \in {generateFlowDiagram(rule, connected, engine)} :
                /\ flowNodes' = diagram.nodes
                /\ flowEdges' = diagram.edges
    /\ detailsShown' = TRUE
    /\ flowLoading' = FALSE
    /\ flowPending' = without(flowPending, k)
    /\ UNCHANGED <<parserVars, layoutVars, coreVars, synthVars, analysisVars, rulesVars, diagramVars, callVars, uiVars>>

\* one of the requests is rejected (lines 900-904)
FetchRuleDetailsFail(k) ==
    /\ firstOfItsRule(flowPending, k)
    /\ flowLoading' = FALSE
    /\ flowPending' = without(flowPending, k)
    /\ UNCHANGED <<selectedRule, connectedAlarms, eventOverlapAlarms,
                   flowNodes, flowEdges, detailsShown>>
    /\ UNCHANGED <<parserVars, layoutVars, coreVars, synthVars, analysisVars, rulesVars, diagramVars, callVars, uiVars>>

FlowStart ==
    \E k \in 1..Len(customerRules) : FetchRuleDetailsStart(customerRules[k].id)

FlowDone == \E k \in 1..MaxPending : FetchRuleDetailsDone(k)

FlowFail == \E k \in 1..MaxPending : FetchRuleDetailsFail(k)

FlowNext == FlowStart \/ FlowDone \/ FlowFail

FlowSpec == FlowInit /\ [][FlowNext]_vars

(***************************************************************************)
(* generateFlowDiagram (pages/Rules.test.jsx 739-860) called on one rule   *)
(* and its alarms.                                                         *)
(***************************************************************************)
\* the <rule> elements of the diagrams: one with a filter and a trigger
\* action, one with name="" (labelled rule_<position>), a "Root Rule"
DiagramRuleEls ==
    {RuleEl(<<sA>>, <<ActionEl(sT1), MatchFilterEl(<<sOr>>, 1)>>),
     RuleEl(<<(<<>>)>>, <<>>),
     RuleEl(<<sRootRule>>, <<>>)}

\* rulesets of at most one trigger and two rules, the empty text and a
\* text that is not well-formed
DiagramTexts ==
    {EmptyText, [kind |-> "malformed", root |-> FlowRuleset]}
    \cup {[kind |-> "wellformed", root |-> El("ruleset", {}, ts \o rs)] :
            ts \in SeqsUpTo({El("trigger", {<<"name", sT1>>}, <<>>)}, 1),
            rs \in SeqsUpTo(DiagramRuleEls, 2)}

DiagramRules == {CoreRule(1, <<sSig471>>, 50, {4625}, xml) : xml \in DiagramTexts}

DiagramInit ==
    /\ xmlContent = EmptyText
    /\ engine \in Engines
    /\ parsed = <<>>
    /\ LayoutIdle
    /\ CoreIdle
    /\ SynthIdle
    /\ FlowIdle
    /\ AnalysisIdle
    /\ UiIdle
    /\ CallsIdle
    /\ RulesIdle
    /\ diagramRule \in {<<rule>> : rule \in DiagramRules}
    /\ diagramAlarms \in FlowAlarmLists
    /\ diagramShown = <<>>

\* one call of generateFlowDiagram(rule, alarms)
GenerateFlowDiagram ==
    /\ diagramShown = <<>>
    /\ diagramShown' = <<generateFlowDiagram(diagramRule[1], diagramAlarms, engine)>>
    /\ UNCHANGED <<diagramRule, diagramAlarms>>
    /\ UNCHANGED <<parserVars, layoutVars, coreVars, synthVars, flowVars, analysisVars,
                   rulesVars, callVars, uiVars>>

DiagramNext == GenerateFlowDiagram

DiagramSpec == DiagramInit /\ [][DiagramNext]_vars

(***************************************************************************)
(* Invocations of parseRuleFilters, getRuleStatistics and layoutRuleNodes  *)
(* by MaxCallers callers.  An invocation begins with its argument and      *)
(* returns later, so that the invocations of the callers overlap in every  *)
(* order.  An argument is undefined, null, a string (an XML text) or an    *)
(* array whose elements are nodes (<<node>>) or null (<<>>).               *)
(***************************************************************************)
Callers == 1..MaxCallers

JsArg(kind, text, nodes) == [kind |-> kind, text |-> text, nodes |-> nodes]

Undefined == JsArg("undefined", EmptyText, <<>>)

NullArg == JsArg("null", EmptyText, <<>>)

TextArg(text) == JsArg("text", text, <<>>)

NodesArg(nodes) == JsArg("nodes", EmptyText, nodes)

\* the strings passed: "", a ruleset, a ruleset that breaks off, a document
\* without ruleset
CallTexts ==
    {EmptyText,
     [kind |-> "wellformed", root |-> FlowRuleset],
     [kind |-> "malformed", root |-> FlowRuleset],
     [kind |-> "wellformed", root |-> El("export", {}, <<>>)]}

LayoutNode(i, label) ==
    [id |-> <<"n", i>>,
     type |-> "default",
     position |-> [x |-> 0, y |-> 0],
     data |-> [label |-> label, type |-> "rule", details |-> <<>>]]

\* the arrays passed: [], two rule nodes that sorting exchanges, arrays
\* with a null element
CallNodeLists ==
    {<<>>,
     <<(<<LayoutNode(1, sUpperB)>>), (<<LayoutNode(2, sLowerA)>>)>>,
     <<(<<>>)>>,
     <<(<<LayoutNode(1, sUpperB)>>), (<<>>)>>}

CallKinds ==
    {[fn |-> fn, arg |-> arg] :
        fn \in {"parseRuleFilters", "getRuleStatistics"},
        arg \in {Undefined, NullArg} \cup {TextArg(t) : t \in CallTexts}}
    \cup {[fn |-> "layoutRuleNodes", arg |-> arg] :
            arg \in {Undefined, NullArg} \cup {NodesArg(ns) : ns \in CallNodeLists}}

Returned(value) == [threw |-> FALSE, value |-> value]

\* a TypeError leaves the function
Thrown == [threw |-> TRUE, value |-> "TypeError"]

\* severity.js 51-52, 218-221: falsy arguments give null, and whatever is
\* thrown after that is caught and gives null
callParseRuleFilters(arg, eng) ==
    IF arg.kind \in {"undefined", "null"} THEN Returned(Null)
    ELSE Returned(parseRuleFilters(arg.text, eng))

\* severity.js 224-225, 244-247
callGetRuleStatistics(arg, eng) ==
    IF arg.kind \in {"undefined", "null"} THEN Returned(NoStatistics)
    ELSE Returned(getRuleStatistics(arg.text, eng))

\* Rules.test.jsx 673-681: the default [] stands in for undefined only;
\* null.length and node.data of a null element throw, and nothing catches
callLayoutRuleNodes(arg) ==
    IF arg.kind = "undefined" THEN Returned(layoutRuleNodes(<<>>))
    ELSE IF arg.kind = "null" THEN Thrown
    ELSE IF \E i \in 1..Len(arg.nodes) : arg.nodes[i] = <<>> THEN Thrown
    ELSE Returned(layoutRuleNodes([i \in 1..Len(arg.nodes) |-> arg.nodes[i][1]]))

outcomeOf(fn, arg, eng) ==
    CASE fn = "parseRuleFilters" -> callParseRuleFilters(arg, eng)
      [] fn = "getRuleStatistics" -> callGetRuleStatistics(arg, eng)
      [] fn = "layoutRuleNodes" -> callLayoutRuleNodes(arg)

\* the caller's argument after the call: the parser reads a string; the
\* layout puts copies { ...node } into arrays of its own, sorts those and
\* builds new objects (Rules.test.jsx 680-712)
argumentAfter(fn, arg) == arg

IdleInvocation ==
    [phase |-> "idle", fn |-> "", input |-> Undefined, held |-> Undefined,
     outcome |-> <<>>]

CallsInit ==
    /\ xmlContent = EmptyText
    /\ engine \in Engines
    /\ parsed = <<>>
    /\ LayoutIdle
    /\ CoreIdle
    /\ SynthIdle
    /\ FlowIdle
    /\ AnalysisIdle
    /\ UiIdle
    /\ RulesIdle
    /\ DiagramIdle
    /\ invocations = [c \in Callers |-> IdleInvocation]

callsFrame == <<parserVars, layoutVars, coreVars, synthVars, flowVars, analysisVars,
                rulesVars, diagramVars, uiVars>>

\* caller c calls fn(arg)
Invoke(c, fn, arg) ==
    /\ invocations[c].phase = "idle"
    /\ invocations' = [invocations EXCEPT ![c] =
            [phase |-> "running", fn |-> fn, input |-> arg, held |-> arg,
             outcome |-> <<>>]]
    /\ UNCHANGED callsFrame

\* the call of caller c returns or throws
Return(c) ==
    /\ invocations[c].phase = "running"
    /\ invocations' = [invocations EXCEPT ![c] =
            [phase |-> "returned", fn |-> @.fn, input |-> @.input,
             held |-> argumentAfter(@.fn, @.held),
             outcome |-> <<outcomeOf(@.fn, @.input, engine)>>]]
    /\ UNCHANGED callsFrame

CallsInvoke == \E c \in Callers : \E call \in CallKinds : Invoke(c, call.fn, call.arg)

CallsReturn == \E c \in Callers : Return(c)

CallsNext == CallsInvoke \/ CallsReturn

CallsSpec == CallsInit /\ [][CallsNext]_vars

(***************************************************************************)
(* Analysis (pages/Analysis.jsx): fetchAnalysisData and the values the     *)
(* page derives from the fetched state when it renders.                    *)
(***************************************************************************)
\* part / total as JavaScript divides numbers that are not negative
jsDivide(part, total) ==
    IF total = 0 THEN (IF part = 0 THEN NaN ELSE Infinity) ELSE Num(part, total)

times100(v) == IF v.kind = "finite" THEN Num(v.num * 100, v.den) ELSE v

\* 100 - v
from100(v) ==
    IF v.kind = "finite" THEN Num(100 * v.den - v.num, v.den)
    ELSE IF v.kind = "nan" THEN NaN
    ELSE [kind |-> "-inf", num |-> 1, den |-> 1]

\* v || 0
orZero(v) == IF v.kind = "nan" \/ (v.kind = "finite" /\ v.num = 0) THEN Num(0, 1) ELSE v

\* v.toFixed(1): the nearest tenth, halves away from zero
toFixed1(v) ==
    IF v.kind = "finite" THEN Num((20 * v.num + v.den) \div (2 * v.den), 10) ELSE v

\* mutant: no guard for a total of zero
safeRatio_NoGuard(part, total) == times100(jsDivide(part, total))

\* lines 352-355
safeRatio(part, total) ==
    IF total = 0 \/ total <= 0 THEN Num(0, 1)
    ELSE times100(jsDivide(part, total))

\* mutant: the subtraction the other way round
coverageData_Swapped ==
    IF coverage # <<>>
    THEN <<[name |-> "Matched", value |-> coverage[1].matched_rules],
           [name |-> "Unmatched",
            value |-> coverage[1].matched_rules - coverage[1].total_rules]>>
    ELSE <<>>

\* lines 357-360
coverageData ==
    IF coverage # <<>>
    THEN <<[name |-> "Matched", value |-> coverage[1].matched_rules],
           [name |-> "Unmatched",
            value |-> coverage[1].total_rules - coverage[1].matched_rules]>>
    ELSE <<>>

\* lines 362-365
alarmCoverageData ==
    IF coverage # <<>>
    THEN <<[name |-> "Covered", value |-> coverage[1].matched_alarms],
           [name |-> "Uncovered",
            value |-> coverage[1].total_alarms - coverage[1].matched_alarms]>>
    ELSE <<>>

\* lines 388-409
radarData ==
    <<[category |-> "Coverage",
       value |-> IF coverage = <<>> THEN Num(0, 1)
                 ELSE orZero(coverage[1].coverage_percentage),
       fullMark |-> 100],
      [category |-> "Rule Efficiency",
       value |-> IF coverage # <<>>
                 THEN safeRatio(coverage[1].matched_rules, coverage[1].total_rules)
                 ELSE Num(0, 1),
       fullMark |-> 100],
      [category |-> "Alarm Coverage",
       value |-> IF coverage # <<>>
                 THEN safeRatio(coverage[1].matched_alarms, coverage[1].total_alarms)
                 ELSE Num(0, 1),
       fullMark |-> 100],
      [category |-> "Optimization Score",
       value |-> IF coverage # <<>>
                 THEN from100(safeRatio(Len(unmatchedRules), coverage[1].total_rules))
                 ELSE Num(0, 1),
       fullMark |-> 100]>>

\* line 480: the Progress bar of the rules
ruleProgress ==
    safeRatio(IF coverage = <<>> THEN 0 ELSE coverage[1].matched_rules,
              IF coverage = <<>> THEN 0 ELSE coverage[1].total_rules)

\* line 499: the Progress bar of the alarms
alarmProgress ==
    safeRatio(IF coverage = <<>> THEN 0 ELSE coverage[1].matched_alarms,
              IF coverage = <<>> THEN 0 ELSE coverage[1].total_alarms)

\* line 514: the number in front of the % sign
coverageRate ==
    IF coverage # <<>> THEN toFixed1(coverage[1].coverage_percentage) ELSE Num(0, 1)

\* what GET .../analysis/event-usage may answer: no event_usage, or a
\* summary (its list of events plays no part in the page values above)
EventUsageAnswers ==
    {<<>>} \cup
    {<<[total_unique_events |->
            Cardinality(UNION ({customerRules[k].windows_event_ids :
                                    k \in 1..Len(customerRules)}
                               \cup {customerAlarms[k].windows_event_ids :
                                    k \in 1..Len(customerAlarms)})),
        events |-> <<>>]>>}

AnalysisInit ==
    /\ ParserIdle
    /\ LayoutIdle
    /\ customerRules \in PageRuleLists
    /\ customerAlarms \in PageAlarmLists
    /\ SynthIdle
    /\ FlowIdle
    /\ AnalysisIdle
    /\ UiIdle
    /\ CallsIdle
    /\ DiagramIdle
    /\ RulesIdle

\* fetchAnalysisData without a customer (lines 69-77)
FetchAnalysisNoCustomer ==
    /\ coverage' = <<>>
    /\ relationships' = <<>>
    /\ unmatchedRules' = <<>>
    /\ unmatchedAlarms' = <<>>
    /\ eventUsage' = NoEventUsage
    /\ analysisLoading' = FALSE
    /\ UNCHANGED analysisPending
    /\ UNCHANGED <<parserVars, layoutVars, coreVars, synthVars, flowVars, rulesVars, diagramVars, callVars, uiVars>>

\* fetchAnalysisData with a customer, up to its await (lines 79-88)
FetchAnalysisStart ==
    /\ analysisPending < MaxPending
    /\ analysisLoading' = TRUE
    /\ analysisPending' = analysisPending + 1
    /\ UNCHANGED <<coverage, relationships, unmatchedRules, unmatchedAlarms, eventUsage>>
    /\ UNCHANGED <<parserVars, layoutVars, coreVars, synthVars, flowVars, rulesVars, diagramVars, callVars, uiVars>>

\* the five responses arrive (lines 90-94, 98-100)
FetchAnalysisDone ==
    /\ analysisPending > 0
    /\ coverage' = <<getCoverage>>
    /\ relationships' = getRelationships
    /\ unmatchedRules' = getUnmatchedRules
    /\ unmatchedAlarms' = getUnmatchedAlarms
    /\ \E answer \in EventUsageAnswers :
        eventUsage' = IF answer = <<>> THEN NoEventUsage ELSE answer[1]
    /\ analysisLoading' = FALSE
    /\ analysisPending' = analysisPending - 1
    /\ UNCHANGED <<parserVars, layoutVars, coreVars, synthVars, flowVars, rulesVars, diagramVars, callVars, uiVars>>

\* one of the requests is rejected (lines 95-100)
FetchAnalysisFail ==
    /\ analysisPending > 0
    /\ analysisLoading' = FALSE
    /\ analysisPending' = analysisPending - 1
    /\ UNCHANGED <<coverage, relationships, unmatchedRules, unmatchedAlarms, eventUsage>>
    /\ UNCHANGED <<parserVars, layoutVars, coreVars, synthVars, flowVars, rulesVars, diagramVars, callVars, uiVars>>

AnalysisNext ==
    \/ FetchAnalysisNoCustomer
    \/ FetchAnalysisStart
    \/ FetchAnalysisDone
    \/ FetchAnalysisFail

AnalysisSpec == AnalysisInit /\ [][AnalysisNext]_vars

(***************************************************************************)
(* The toast reducer (hooks/use-toast.jsx)                                 *)
(***************************************************************************)

\* use-toast.jsx 4
TOAST_LIMIT == 1

\* the ids genId (use-toast.jsx 15-18) has handed out: "1", "2", ...
ToastIds == 1..MaxToastId

\* toastId is undefined
NoToastId == 0

ToastTitles == {"Success", "Error"}

\* a toast as getToast builds it (use-toast.jsx 82-95) or as an update
\* leaves it
Toasts == [id : ToastIds, title : ToastTitles, open : BOOLEAN]

\* the toast of an UPDATE_TOAST action, { ...props, id } (use-toast.jsx
\* 76-79): a property is absent (<<>>) or given (<<value>>)
ToastUpdates ==
    [id : ToastIds,
     title : {<<>>} \cup {<<t>> : t \in ToastTitles},
     open : {<<>>, <<TRUE>>, <<FALSE>>}]

\* { ...t, ...update }
spread(t, update) ==
    [id |-> update.id,
     title |-> IF update.title = <<>> THEN t.title ELSE update.title[1],
     open |-> IF update.open = <<>> THEN t.open ELSE update.open[1]]

\* Array.prototype.slice(0, end) for end >= 0
sliceFromStart(array, end) ==
    SubSeq(array, 1, IF end < Len(array) THEN end ELSE Len(array))

\* mutant: the new toast is put in front and the list is not cut
reducer_NoLimit(state, action) ==
    CASE action.type = "ADD_TOAST" -> <<action.toast>> \o state
      [] action.type = "UPDATE_TOAST" ->
            [i \in 1..Len(state) |->
                IF state[i].id = action.toast.id
                THEN spread(state[i], action.toast)
                ELSE state[i]]
      [] action.type = "DISMISS_TOAST" ->
            [i \in 1..Len(state) |->
                IF state[i].id = action.toastId
                THEN [state[i] EXCEPT !.open = FALSE]
                ELSE state[i]]
      [] action.type = "REMOVE_TOAST" ->
            IF action.toastId = NoToastId
            THEN <<>>
            ELSE SelectSeq(state, LAMBDA t : t.id # action.toastId)

\* reducer (use-toast.jsx 24-67) on state.toasts, the only field of the state
reducer(state, action) ==
    CASE action.type = "ADD_TOAST" ->
            sliceFromStart(<<action.toast>> \o state, TOAST_LIMIT)
      [] action.type = "UPDATE_TOAST" ->
            [i \in 1..Len(state) |->
                IF state[i].id = action.toast.id
                THEN spread(state[i], action.toast)
                ELSE state[i]]
      [] action.type = "DISMISS_TOAST" ->
            [i \in 1..Len(state) |->
                IF state[i].id = action.toastId
                THEN [state[i] EXCEPT !.open = FALSE]
                ELSE state[i]]
      [] action.type = "REMOVE_TOAST" ->
            IF action.toastId = NoToastId
            THEN <<>>
            ELSE SelectSeq(state, LAMBDA t : t.id # action.toastId)

\* the provider as mounted: useReducer(reducer, { toasts: [] })
\* (use-toast.jsx 72)
ToastInit ==
    /\ ParserIdle
    /\ LayoutIdle
    /\ CoreIdle
    /\ SynthIdle
    /\ FlowIdle
    /\ AnalysisIdle
    /\ RulesIdle
    /\ DiagramIdle
    /\ CallsIdle
    /\ ToastIdle
    /\ SettingsIdle

toastFrame == <<parserVars, layoutVars, coreVars, synthVars, flowVars, analysisVars,
                rulesVars, diagramVars, callVars, settingsVars>>

\* dispatch(action) (use-toast.jsx 72)
dispatch(action) ==
    /\ toasts' = reducer(toasts, action)
    /\ lastToastAction' = <<[state |-> toasts, action |-> action]>>
    /\ UNCHANGED toastFrame

DispatchAddToast ==
    \E toast \in Toasts : dispatch([type |-> "ADD_TOAST", toast |-> toast])

DispatchUpdateToast ==
    \E toast \in ToastUpdates : dispatch([type |-> "UPDATE_TOAST", toast |-> toast])

DispatchDismissToast ==
    \E toastId \in ToastIds \cup {NoToastId} :
        dispatch([type |-> "DISMISS_TOAST", toastId |-> toastId])

DispatchRemoveToast ==
    \E toastId \in ToastIds \cup {NoToastId} :
        dispatch([type |-> "REMOVE_TOAST", toastId |-> toastId])

ToastNext ==
    \/ DispatchAddToast
    \/ DispatchUpdateToast
    \/ DispatchDismissToast
    \/ DispatchRemoveToast

ToastSpec == ToastInit /\ [][ToastNext]_vars

(***************************************************************************)
(* The system settings of the Settings page (pages/Settings.jsx)           *)
(***************************************************************************)

\* Settings.jsx 75-76
GENERAL_NUMERIC_FIELDS == {"maxFileSize", "defaultPageSize", "sessionTimeout"}

API_NUMERIC_FIELDS == {"timeout", "pollInterval"}

\* the fields the model edits, as <<section, field>>
SettingFields ==
    {<<"general", "appName">>, <<"general", "maxFileSize">>, <<"api", "timeout">>,
     <<"customer_defaults", "maxAlarmNameLength">>}

\* the fields whose input has type="number" (Settings.jsx 491, 609, 682)
NumberInputFields == SettingFields \ {<<"general", "appName">>}

\* e.target.value of a change: "", "7", "12abc", "abc"
RawValues == {<<>>, <<"7">>, <<"1", "2", "a", "b", "c">>, <<"a", "b", "c">>}

DecimalDigits == <<"0", "1", "2", "3", "4", "5", "6", "7", "8", "9">>

isDigit(c) == \E i \in 1..10 : DecimalDigits[i] = c

digitValue(c) == (CHOOSE i \in 1..10 : DecimalDigits[i] = c) - 1

\* the digits a text starts with and their value
RECURSIVE leadingDigits(_, _)
leadingDigits(text, sofar) ==
    IF text # <<>> /\ isDigit(Head(text))
    THEN leadingDigits(Tail(text),
                       [seen |-> TRUE, value |-> sofar.value * 10 + digitValue(Head(text))])
    ELSE sofar

\* Number.parseInt(text, 10): white space, a sign, then the longest run of
\* digits; NaN (<<>>) when there is no digit
parseInt(text) ==
    LET t == trimLeft(text)
        signed == t # <<>> /\ Head(t) \in {"-", "+"}
        r == leadingDigits(IF signed THEN Tail(t) ELSE t, [seen |-> FALSE, value |-> 0])
    IN IF ~r.seen THEN <<>>
       ELSE IF signed /\ Head(t) = "-" THEN <<0 - r.value>> ELSE <<r.value>>

\* updateSystemSetting (Settings.jsx 159-177): the value to store, or <<>>
\* when the handler returns without an update
settingValue(section, field, rawValue) ==
    LET numericFields == IF section = "general" THEN GENERAL_NUMERIC_FIELDS
                         ELSE IF section = "api" THEN API_NUMERIC_FIELDS
                         ELSE {}
    IN IF field \in numericFields
       THEN IF rawValue = <<>> THEN <<jsString(<<>>)>>
            ELSE LET num == parseInt(rawValue)
                 IN IF num = <<>> THEN <<>> ELSE <<jsNumber(num[1])>>
       ELSE <<jsString(rawValue)>>

\* the settings a load may answer with (data.settings, Settings.jsx 108)
ServerSettings ==
    {INITIAL_SYSTEM_SETTINGS,
     [INITIAL_SYSTEM_SETTINGS EXCEPT !.general.maxFileSize = jsNumber(7)]}

\* the state systemDefaults (Settings.jsx 84, 109), the server's defaults
\* being the initial ones
systemDefaults == INITIAL_SYSTEM_SETTINGS

\* the state systemSaving (Settings.jsx 87, 202, 230)
systemSaving == savePending # <<>>

\* Settings.jsx 445: the Save Changes button is disabled
saveDisabled == ~systemDirty \/ systemSaving

SettingsInit ==
    /\ ParserIdle
    /\ LayoutIdle
    /\ CoreIdle
    /\ SynthIdle
    /\ FlowIdle
    /\ AnalysisIdle
    /\ RulesIdle
    /\ DiagramIdle
    /\ CallsIdle
    /\ ToastIdle
    /\ SettingsIdle

settingsFrame == <<parserVars, layoutVars, coreVars, synthVars, flowVars, analysisVars,
                   rulesVars, diagramVars, callVars, toastVars>>

\* loadSystemSettings after its await (Settings.jsx 107-110, 120-122)
LoadSystemDone(settings) ==
    /\ systemLoading
    /\ systemSettings' = settings
    /\ systemDirty' = FALSE
    /\ systemLoading' = FALSE
    /\ UNCHANGED savePending
    /\ UNCHANGED settingsFrame

\* loadSystemSettings when the request fails (Settings.jsx 116-122)
LoadSystemFail ==
    /\ systemLoading
    /\ systemLoading' = FALSE
    /\ UNCHANGED <<systemSettings, systemDirty, savePending>>
    /\ UNCHANGED settingsFrame

\* updateSystemSetting (Settings.jsx 159-193) from the onChange of a field;
\* the form is rendered once loading is over (393-399)
updateSystemSetting(section, field, rawValue) ==
    /\ ~systemLoading
    /\ \E value \in {settingValue(section, field, rawValue)} :
          IF value = <<>>
          THEN UNCHANGED vars
          ELSE /\ systemSettings' = [systemSettings EXCEPT ![section][field] = value[1]]
               /\ systemDirty' = TRUE
               /\ UNCHANGED <<systemLoading, savePending>>
               /\ UNCHANGED settingsFrame

\* handleResetSystem (Settings.jsx 195-199) from the Reset button (441)
handleResetSystem ==
    /\ ~systemLoading
    /\ ~saveDisabled
    /\ systemSettings' = systemDefaults
    /\ systemDirty' = TRUE
    /\ UNCHANGED <<systemLoading, savePending>>
    /\ UNCHANGED settingsFrame

\* handleSaveSystem (Settings.jsx 201-203) up to its await, from the Save
\* Changes button (445)
handleSaveSystem ==
    /\ ~systemLoading
    /\ ~saveDisabled
    /\ savePending' = <<systemSettings>>
    /\ UNCHANGED <<systemSettings, systemLoading, systemDirty>>
    /\ UNCHANGED settingsFrame

\* handleSaveSystem after its await (Settings.jsx 205-219, 229-231).
\* updated is response.data.updated: absent (<<>>) or <<the sections it
\* holds>>, each section as it was sent. systemSettings in the handler is
\* the one of the render the button was activated in, that is the settings
\* sent.
SaveSystemDone(updated) ==
    /\ savePending # <<>>
    /\ systemSettings' =
          IF updated = <<>>
          THEN systemSettings
          ELSE LET sent == savePending[1]
                   received == [section \in updated[1] |-> sent[section]]
                   merged(section) == IF section \in DOMAIN received
                                      THEN received[section]
                                      ELSE sent[section]
               IN [general |-> merged("general"),
                   api |-> merged("api"),
                   customer_defaults |-> merged("customer_defaults")]
    /\ systemDirty' = FALSE
    /\ savePending' = <<>>
    /\ UNCHANGED systemLoading
    /\ UNCHANGED settingsFrame

\* handleSaveSystem when the request fails (Settings.jsx 220-231)
SaveSystemFail ==
    /\ savePending # <<>>
    /\ savePending' = <<>>
    /\ UNCHANGED <<systemSettings, systemLoading, systemDirty>>
    /\ UNCHANGED settingsFrame

SettingsLoadDone == \E settings \in ServerSettings : LoadSystemDone(settings)

SettingsChange ==
    \E f \in SettingFields, rawValue \in RawValues : updateSystemSetting(f[1], f[2], rawValue)

SettingsSaveDone ==
    \E updated \in {<<>>} \cup {<<sections>> : sections \in SUBSET {"general", "api", "customer_defaults"}} :
        SaveSystemDone(updated)

SettingsNext ==
    \/ SettingsLoadDone
    \/ LoadSystemFail
    \/ SettingsChange
    \/ handleResetSystem
    \/ handleSaveSystem
    \/ SettingsSaveDone
    \/ SaveSystemFail

SettingsSpec == SettingsInit /\ [][SettingsNext]_vars

(***************************************************************************)
(* Properties of the parser                                                *)
(***************************************************************************)
\* all elements of a text, in document order
Elements(text) == <<text.root>> \o Descendants(text.root)

ElementsTagged(text, tag) == SelectSeq(Elements(text), LAMBDA e : e.tag = tag)

ComponentsBelow(e) ==
    Len(SelectSeq(Descendants(e), LAMBDA d : d.tag = "singleFilterComponent"))

NodesOfType(g, t) == SelectSeq(g.nodes, LAMBDA n : n.data.type = t)

TypeOfNode(g, id) ==
    IF \E i \in 1..Len(g.nodes) : g.nodes[i].id = id
    THEN g.nodes[CHOOSE i \in 1..Len(g.nodes) : g.nodes[i].id = id].data.type
    ELSE "none"

\* the edges from a node of type a to a node of type b
EdgesBetween(g, a, b) ==
    SelectSeq(g.edges, LAMBDA e :
        TypeOfNode(g, e.source) = a /\ TypeOfNode(g, e.target) = b)

\* a <rule> that carries a name attribute other than "Root Rule"
NamedRule(e) ==
    /\ e.tag = "rule"
    /\ \E p \in e.attrs : p[1] = "name" /\ p[2] # sRootRule

\* the number of components below the first matchFilter of a rule
FirstFilterSize(rule) ==
    LET mfs == SelectSeq(Descendants(rule), LAMBDA d : d.tag = "matchFilter")
    IN IF mfs = <<>> THEN 0 ELSE ComponentsBelow(mfs[1])

RECURSIVE SumFirstFilterSizes(_)
SumFirstFilterSizes(rules) ==
    IF rules = <<>> THEN 0
    ELSE FirstFilterSize(Head(rules)) + SumFirstFilterSizes(Tail(rules))

HasRuleset(text) == ElementsTagged(text, "ruleset") # <<>>

\* C1 as stated: a well-formed text (root ruleset, every rule named) with
\* one matchFilter that has N singleFilterComponent elements below it
\* yields a graph with exactly N filterComponent nodes and N
\* filterGroup -> filterComponent edges.
C1_AsStated ==
    (/\ parsed # <<>>
     /\ xmlContent.kind = "wellformed"
     /\ xmlContent.root.tag = "ruleset"
     /\ \A i \in 1..Len(xmlContent.root.kids) :
           (xmlContent.root.kids[i].tag = "rule" =>
             (\E p \in xmlContent.root.kids[i].attrs : p[1] = "name" /\ p[2] # <<>>))
     /\ Len(ElementsTagged(xmlContent, "matchFilter")) = 1) =>
        LET n == ComponentsBelow(ElementsTagged(xmlContent, "matchFilter")[1])
            g == parsed[1]
        IN /\ ~g.isNull
           /\ Len(NodesOfType(g, "filterComponent")) = n
           /\ Len(EdgesBetween(g, "filterGroup", "filterComponent")) = n

\* C1, amended: in a well-formed text that contains a ruleset, every <rule>
\* with a name attribute other than "Root Rule" whose first matchFilter has
\* N singleFilterComponent elements below it gets one filterGroup node with
\* exactly N edges to N distinct filterComponent nodes, and the graph holds
\* no other filterComponent node.
C1_ComponentsPerFilter ==
    (parsed # <<>> /\ xmlContent.kind = "wellformed" /\ HasRuleset(xmlContent)) =>
        LET g == parsed[1]
            rules == SelectSeq(Elements(xmlContent), NamedRule)
            ruleNodes == NodesOfType(g, "rule")
        IN /\ ~g.isNull
           /\ Len(ruleNodes) = Len(rules)
           /\ \A k \in 1..Len(rules) :
                LET groups == {g.edges[i].target : i \in
                                {j \in 1..Len(g.edges) :
                                    /\ g.edges[j].source = ruleNodes[k].id
                                    /\ TypeOfNode(g, g.edges[j].target) = "filterGroup"}}
                    hasFilter == SelectSeq(Descendants(rules[k]),
                                           LAMBDA d : d.tag = "matchFilter") # <<>>
                IN /\ Cardinality(groups) = (IF hasFilter THEN 1 ELSE 0)
                   /\ \A gid \in groups :
                        LET out == SelectSeq(g.edges, LAMBDA e :
                                      /\ e.source = gid
                                      /\ TypeOfNode(g, e.target) = "filterComponent")
                        IN /\ Len(out) = FirstFilterSize(rules[k])
                           /\ Cardinality({out[i].target : i \in 1..Len(out)})
                                = FirstFilterSize(rules[k])
           /\ Len(NodesOfType(g, "filterComponent")) = SumFirstFilterSizes(rules)
           /\ Len(EdgesBetween(g, "filterGroup", "filterComponent"))
                = SumFirstFilterSizes(rules)

\* C1 witness: a parsed text with two named rules, one of them with
\* MaxComponents components below its filter, next to a "Root Rule" that
\* has a filter of its own
C1_Witness ==
    /\ parsed # <<>>
    /\ xmlContent.kind = "wellformed"
    /\ ~parsed[1].isNull
    /\ Len(NodesOfType(parsed[1], "filterComponent")) = MaxComponents
    /\ MaxComponents >= 2
    /\ \E i \in 1..Len(xmlContent.root.kids) :
        /\ xmlContent.root.kids[i].tag = "rule"
        /\ <<"name", sRootRule>> \in xmlContent.root.kids[i].attrs
        /\ FirstFilterSize(xmlContent.root.kids[i]) > 0

\* C2 as stated: one rule node for every <rule> whose name is not "Root
\* Rule" (a <rule> that has no name attribute has no such name either), and
\* none for a rule named "Root Rule".
C2_AsStated ==
    (parsed # <<>> /\ xmlContent.kind = "wellformed"
        /\ xmlContent.root.tag = "ruleset") =>
        /\ ~parsed[1].isNull
        /\ Len(NodesOfType(parsed[1], "rule"))
            = Len(SelectSeq(Elements(xmlContent), LAMBDA e :
                    e.tag = "rule" /\ <<"name", sRootRule>> \notin e.attrs))

\* the text <ruleset><rule name="Root Rule"/></ruleset>
RootRuleOnlyText ==
    [kind |-> "wellformed",
     root |-> El("ruleset", {}, <<El("rule", {<<"name", sRootRule>>}, <<>>)>>)]

\* C2, amended: in a well-formed text with a ruleset the rule nodes are, in
\* document order, the <rule> elements that carry a name attribute whose
\* value is not "Root Rule" (a <rule> without a name attribute gets no node,
\* one with name="" is labelled rule_<position>); the text
\* <ruleset><rule name="Root Rule"/></ruleset> gives a graph without nodes.
C2_RuleNodes ==
    (parsed # <<>> /\ xmlContent.kind = "wellformed" /\ HasRuleset(xmlContent)) =>
        LET rules == SelectSeq(Elements(xmlContent), NamedRule)
            ruleNodes == NodesOfType(parsed[1], "rule")
        IN /\ ~parsed[1].isNull
           /\ Len(ruleNodes) = Len(rules)
           /\ \A k \in 1..Len(rules) :
                LET name == (CHOOSE p \in rules[k].attrs : p[1] = "name")[2]
                IN ruleNodes[k].data.label =
                     (IF name = <<>> THEN sRulePrefix \o numStr(k) ELSE name)
           /\ xmlContent = RootRuleOnlyText => parsed[1] = Graph(<<>>, <<>>)

\* C2 witness: a parsed ruleset holding a "Root Rule" and a rule named "A"
C2_Witness ==
    /\ parsed # <<>>
    /\ xmlContent.kind = "wellformed"
    /\ xmlContent.root.tag = "ruleset"
    /\ Len(NodesOfType(parsed[1], "rule")) = 1
    /\ \E i, j \in 1..Len(xmlContent.root.kids) :
        /\ xmlContent.root.kids[i].tag = "rule"
        /\ <<"name", sRootRule>> \in xmlContent.root.kids[i].attrs
        /\ xmlContent.root.kids[j].tag = "rule"
        /\ <<"name", sA>> \in xmlContent.root.kids[j].attrs

\* a ruleset without triggers and without rules
ValidButEmpty(text) ==
    /\ text.kind = "wellformed"
    /\ text.root.tag = "ruleset"
    /\ ElementsTagged(text, "trigger") = <<>>
    /\ ElementsTagged(text, "rule") = <<>>

\* C3: text that is not well-formed gives the failure result null, and a
\* well-formed ruleset without triggers and rules gives the empty graph
\* {nodes: [], edges: []}, which is not null.
C3_MalformedIsNotEmpty ==
    parsed # <<>> =>
        /\ xmlContent.kind = "malformed" => parsed[1] = Null
        /\ ValidButEmpty(xmlContent) =>
            /\ parsed[1] = Graph(<<>>, <<>>)
            /\ parsed[1] # Null

\* C3 witness: WebKit has parsed a text that broke off inside a ruleset
\* which already held a rule, and the result is null
C3_Witness ==
    /\ parsed # <<>>
    /\ xmlContent.kind = "malformed"
    /\ engine = "webkit"
    /\ ElementsTagged(xmlContent, "rule") # <<>>
    /\ parsed[1].isNull

\* C4 as stated: a well-formed text whose root element is not <ruleset>
\* gives the failure result.
C4_AsStated ==
    (parsed # <<>> /\ xmlContent.kind = "wellformed"
        /\ xmlContent.root.tag # "ruleset") => parsed[1].isNull

\* C4, amended: a well-formed text gives the failure result exactly when it
\* contains no <ruleset> element, at the root or below it.
C4_NoRulesetFails ==
    (parsed # <<>> /\ xmlContent.kind = "wellformed") =>
        (parsed[1].isNull <=> ~HasRuleset(xmlContent))

\* C4 witness: a parsed text with root <export>, rules below it and no
\* ruleset, for which the result is null
C4_Witness ==
    /\ parsed # <<>>
    /\ xmlContent.kind = "wellformed"
    /\ xmlContent.root.tag = "export"
    /\ ~HasRuleset(xmlContent)
    /\ ElementsTagged(xmlContent, "rule") # <<>>
    /\ parsed[1].isNull

\* the name the parser gives the j-th <trigger> of a text (lines 77)
NameOfTrigger(trigger, j) ==
    orDefault(getAttribute(trigger, "name"), sTriggerPrefix \o numStr(j))

\* the filterGroup node below a rule node, if any
GroupsOfRule(g, ruleNodeId) ==
    {g.edges[i].target : i \in
        {j \in 1..Len(g.edges) :
            /\ g.edges[j].source = ruleNodeId
            /\ TypeOfNode(g, g.edges[j].target) = "filterGroup"}}

HasEdge(g, source, target) ==
    \E i \in 1..Len(g.edges) :
        g.edges[i].source = source /\ g.edges[i].target = target

\* C16 as stated: a rule with a filter and an action of type TRIGGER whose
\* trigger attribute is T has an edge from its filterGroup node to the node
\* of a trigger named exactly T when the text holds one, and no edge to the
\* node of a trigger with another name.
C16_AsStated ==
    (parsed # <<>> /\ xmlContent.kind = "wellformed" /\ HasRuleset(xmlContent)
        /\ ~parsed[1].isNull) =>
        LET g == parsed[1]
            rules == SelectSeq(Elements(xmlContent), NamedRule)
            ruleNodes == NodesOfType(g, "rule")
            triggers == ElementsTagged(xmlContent, "trigger")
            triggerNodes == NodesOfType(g, "trigger")
        IN /\ Len(ruleNodes) = Len(rules)
           /\ Len(triggerNodes) = Len(triggers)
           /\ \A k \in 1..Len(rules) :
                LET actionElem == querySelector(rules[k], isTriggerAction)
                IN (actionElem # <<>> /\ getAttribute(actionElem[1], "trigger") # <<>>) =>
                    LET T == getAttribute(actionElem[1], "trigger")[1]
                    IN \A gid \in GroupsOfRule(g, ruleNodes[k].id) :
                        /\ (\E j \in 1..Len(triggers) : NameOfTrigger(triggers[j], j) = T)
                            => \E j \in 1..Len(triggers) :
                                /\ NameOfTrigger(triggers[j], j) = T
                                /\ HasEdge(g, gid, triggerNodes[j].id)
                        /\ \A j \in 1..Len(triggers) :
                            HasEdge(g, gid, triggerNodes[j].id)
                                => NameOfTrigger(triggers[j], j) = T

\* the edges that leave a node
EdgesFrom(g, id) == SelectSeq(g.edges, LAMBDA e : e.source = id)

NodeWithId(g, id) == g.nodes[CHOOSE i \in 1..Len(g.nodes) : g.nodes[i].id = id]

sORFilter == <<"O","R"," ","F","i","l","t","e","r">>
sANDFilter == <<"A","N","D"," ","F","i","l","t","e","r">>

\* the label of the filterGroup of a matchFilter element
OperatorLabel(matchFilter) ==
    IF <<"type", sOr>> \in matchFilter.attrs THEN sORFilter ELSE sANDFilter

\* C17: in a well-formed text with a ruleset, the node of a rule that holds
\* a matchFilter has exactly one outgoing edge to a filterGroup node, and
\* that node is labelled with the operator of the rule's first matchFilter
\* ("OR Filter" for type="or", "AND Filter" for type="and" or no type); the
\* node of a rule without matchFilter has no outgoing edge, and the result
\* is a graph, not the failure result.
C17_OneGroupPerRule ==
    (parsed # <<>> /\ xmlContent.kind = "wellformed" /\ HasRuleset(xmlContent)) =>
        LET g == parsed[1]
            rules == SelectSeq(Elements(xmlContent), NamedRule)
            ruleNodes == NodesOfType(g, "rule")
        IN /\ ~g.isNull
           /\ Len(ruleNodes) = Len(rules)
           /\ \A k \in 1..Len(rules) :
                LET out == EdgesFrom(g, ruleNodes[k].id)
                    toGroups == SelectSeq(out, LAMBDA e :
                                    TypeOfNode(g, e.target) = "filterGroup")
                    mfs == SelectSeq(Descendants(rules[k]),
                                     LAMBDA d : d.tag = "matchFilter")
                IN IF mfs = <<>>
                   THEN out = <<>>
                   ELSE /\ Len(toGroups) = 1
                        /\ out = toGroups
                        /\ NodeWithId(g, toGroups[1].target).data.label
                             = OperatorLabel(mfs[1])

\* C17 witness: a parsed ruleset of two rules, the first with a matchFilter
\* of type "or" followed by one of type "and", the second without children;
\* the first rule node leads to a group labelled "OR Filter", the second has
\* no outgoing edge
C17_Witness ==
    /\ parsed # <<>>
    /\ xmlContent.kind = "wellformed"
    /\ xmlContent.root.tag = "ruleset"
    /\ ~parsed[1].isNull
    /\ Len(NodesOfType(parsed[1], "rule")) = 2
    /\ Len(ElementsTagged(xmlContent, "matchFilter")) = 2
    /\ LET ruleNodes == NodesOfType(parsed[1], "rule")
           out == EdgesFrom(parsed[1], ruleNodes[1].id)
       IN /\ Len(out) = 1
          /\ NodeWithId(parsed[1], out[1].target).data.label = sORFilter
          /\ EdgesFrom(parsed[1], ruleNodes[2].id) = <<>>

\* the singleFilterComponent elements that get a node: those below the
\* first matchFilter of each named rule, in document order
RECURSIVE ShownComponents(_)
ShownComponents(rules) ==
    IF rules = <<>> THEN <<>>
    ELSE LET mfs == SelectSeq(Descendants(Head(rules)),
                              LAMBDA d : d.tag = "matchFilter")
         IN (IF mfs = <<>> THEN <<>>
             ELSE SelectSeq(Descendants(mfs[1]),
                            LAMBDA d : d.tag = "singleFilterComponent"))
            \o ShownComponents(Tail(rules))

\* the value attribute of the first <filterData name=...> below a
\* component, as written in the text; none when there is no such element
WrittenData(component, name) ==
    LET fds == SelectSeq(Descendants(component), LAMBDA d :
                    d.tag = "filterData" /\ <<"name", name>> \in d.attrs)
        vs == IF fds = <<>> THEN {} ELSE {p \in fds[1].attrs : p[1] = "value"}
    IN IF vs = {} THEN <<>> ELSE <<(CHOOSE p \in vs : TRUE)[2]>>

EndsWith(s, tail) ==
    Len(s) >= Len(tail) /\ SubSeq(s, Len(s) - Len(tail) + 1, Len(s)) = tail

\* C18: the i-th filterComponent node belongs to the i-th shown component
\* of the text; its details hold the component's type attribute, its
\* operator (EQUALS when none is written) and its whole value (the empty
\* text when none is written), whatever the value's length; its label ends
\* with the value itself when that has at most 20 characters and with the
\* first 20 characters followed by "..." when it is longer.
C18_FullValueInDetails ==
    (parsed # <<>> /\ xmlContent.kind = "wellformed" /\ HasRuleset(xmlContent)) =>
        LET g == parsed[1]
            components == ShownComponents(SelectSeq(Elements(xmlContent), NamedRule))
            componentNodes == NodesOfType(g, "filterComponent")
        IN /\ Len(componentNodes) = Len(components)
           /\ \A i \in 1..Len(components) :
                LET written == WrittenData(components[i], sValue)
                    value == IF written = <<>> THEN <<>> ELSE written[1]
                    op == WrittenData(components[i], sOperator)
                    node == componentNodes[i]
                IN /\ Len(node.data.details) = 1
                   /\ DOMAIN node.data.details[1] = {"filterType", "operator", "value"}
                   /\ node.data.details[1].value = value
                   /\ node.data.details[1].filterType
                        = getAttribute(components[i], "type")
                   /\ node.data.details[1].operator
                        = (IF op = <<>> THEN sEQUALS ELSE op[1])
                   /\ IF Len(value) > 20
                      THEN /\ EndsWith(node.data.label,
                                       NL \o SubSeq(value, 1, 20) \o <<".", ".", ".">>)
                           /\ ~includes(node.data.label, value)
                      ELSE EndsWith(node.data.label, NL \o value)

\* C18 witness: a parsed rule with a component whose value has 20
\* characters and one whose value has 21; the second node's details hold
\* the 21 characters while its label was shortened
C18_Witness ==
    /\ parsed # <<>>
    /\ xmlContent.kind = "wellformed"
    /\ ~parsed[1].isNull
    /\ LET componentNodes == NodesOfType(parsed[1], "filterComponent")
       IN /\ Len(componentNodes) = 2
          /\ componentNodes[1].data.details[1].value = sValue20
          /\ EndsWith(componentNodes[1].data.label, sValue20)
          /\ componentNodes[2].data.details[1].value = sValue21
          /\ Len(componentNodes[2].data.details[1].value) = 21
          /\ EndsWith(componentNodes[2].data.label, <<"t", ".", ".", ".">>)

NodeIdsOf(g) == {g.nodes[i].id : i \in 1..Len(g.nodes)}

\* the edges that arrive at a node
EdgesInto(g, id) == SelectSeq(g.edges, LAMBDA e : e.target = id)

\* the nodes reached from a node by at most n edges
RECURSIVE ReachedWithin(_, _, _)
ReachedWithin(g, ids, n) ==
    IF n = 0 THEN ids
    ELSE ReachedWithin(g,
            ids \cup {g.edges[i].target : i \in
                        {j \in 1..Len(g.edges) : g.edges[j].source \in ids}},
            n - 1)

\* no node is reached from one of its successors
Acyclic(g) ==
    \A i \in 1..Len(g.edges) :
        g.edges[i].source \notin ReachedWithin(g, {g.edges[i].target}, Len(g.nodes))

\* C25: every graph the parser returns is acyclic; each filterGroup node
\* has exactly one incoming edge, from a rule node; each filterComponent
\* node has exactly one incoming edge, from a filterGroup node; every other
\* edge leads from a filterGroup node to a trigger node.
C25_ForestWithTriggerLinks ==
    (parsed # <<>> /\ ~parsed[1].isNull) =>
        LET g == parsed[1]
        IN /\ Acyclic(g)
           /\ \A i \in 1..Len(g.nodes) :
                LET into == EdgesInto(g, g.nodes[i].id)
                IN /\ g.nodes[i].data.type = "filterGroup" =>
                        Len(into) = 1 /\ TypeOfNode(g, into[1].source) = "rule"
                   /\ g.nodes[i].data.type = "filterComponent" =>
                        Len(into) = 1 /\ TypeOfNode(g, into[1].source) = "filterGroup"
           /\ \A i \in 1..Len(g.edges) :
                LET from == TypeOfNode(g, g.edges[i].source)
                    to == TypeOfNode(g, g.edges[i].target)
                IN \/ from = "rule" /\ to = "filterGroup"
                   \/ from = "filterGroup" /\ to = "filterComponent"
                   \/ from = "filterGroup" /\ to = "trigger"

\* C25 witness: a parsed ruleset with two rule trees, components below a
\* group, and a link from a group to a trigger
C25_Witness ==
    /\ parsed # <<>>
    /\ xmlContent.kind = "wellformed"
    /\ ~parsed[1].isNull
    /\ Len(NodesOfType(parsed[1], "rule")) = 2
    /\ Len(NodesOfType(parsed[1], "filterGroup")) = 2
    /\ Len(EdgesBetween(parsed[1], "filterGroup", "filterComponent")) >= 2
    /\ Len(EdgesBetween(parsed[1], "filterGroup", "trigger")) >= 1

\* C29: in every graph the parser returns no two nodes have the same id,
\* and the source and the target of every edge are ids of nodes of that
\* graph.
C29_IdsDistinctEdgesClosed ==
    (parsed # <<>> /\ ~parsed[1].isNull) =>
        LET g == parsed[1]
        IN /\ \A i, j \in 1..Len(g.nodes) : g.nodes[i].id = g.nodes[j].id => i = j
           /\ \A i \in 1..Len(g.edges) :
                /\ g.edges[i].source \in NodeIdsOf(g)
                /\ g.edges[i].target \in NodeIdsOf(g)

\* C29 witness: a parsed ruleset of two triggers and two rules with
\* filters, whose graph holds at least seven nodes and an edge to a trigger
C29_Witness ==
    /\ parsed # <<>>
    /\ xmlContent.kind = "wellformed"
    /\ ~parsed[1].isNull
    /\ Len(NodesOfType(parsed[1], "trigger")) = 2
    /\ Len(NodesOfType(parsed[1], "rule")) = 2
    /\ Len(parsed[1].nodes) >= 7
    /\ \E i \in 1..Len(parsed[1].edges) :
        TypeOfNode(parsed[1], parsed[1].edges[i].target) = "trigger"

ColumnOfType(type) ==
    CASE type = "trigger" -> 0
      [] type = "rule" -> 1
      [] type = "filterGroup" -> 2
      [] type = "filterComponent" -> 3
      [] OTHER -> 1

\* the indices of the nodes of a list that belong to a column
IndicesInColumn(nodes, c) ==
    {i \in 1..Len(nodes) : ColumnOfType(nodes[i].data.type) = c}

\* the number of nodes in the fullest column
FullestColumn(nodes) ==
    CHOOSE m \in 0..Len(nodes) :
        /\ \E c \in 0..3 : Cardinality(IndicesInColumn(nodes, c)) = m
        /\ \A c \in 0..3 : Cardinality(IndicesInColumn(nodes, c)) <= m

\* C23: the laid-out nodes are the input nodes, column after column; a node
\* in row r (from 0) of column c, a column of k nodes when the fullest
\* column has M, is at x = 160 + c * 180 and y = 80 + ((M - k) * 140) / 2
\* + r * 140; the column is that of the node's type in [trigger, rule,
\* filterGroup, filterComponent] and the rule column for any other or
\* missing type.
C23_ColumnsCentred ==
    layoutLast # <<>> =>
        LET input == layoutLast[1].input
            out == layoutLast[1].output.nodes
            M == FullestColumn(out)
        IN /\ Len(out) = Len(input)
           /\ {out[i].id : i \in 1..Len(out)} = {input[i].id : i \in 1..Len(input)}
           /\ \A i \in 1..Len(out) :
                LET c == ColumnOfType(out[i].data.type)
                    k == Cardinality(IndicesInColumn(out, c))
                    r == Cardinality({j \in IndicesInColumn(out, c) : j < i})
                IN /\ out[i].position.x = 160 + c * 180
                   /\ 2 * out[i].position.y = 2 * 80 + (M - k) * 140 + 2 * r * 140
                   /\ \E j \in 1..Len(input) :
                        /\ input[j].id = out[i].id
                        /\ input[j].data = out[i].data
           /\ \A i, j \in 1..Len(out) :
                i < j => ColumnOfType(out[i].data.type) <= ColumnOfType(out[j].data.type)

\* C23 witness: two nodes in the rule column, one of them of a type
\* without column, next to a single trigger, which is centred at y = 150
C23_Witness ==
    /\ layoutLast # <<>>
    /\ Len(layoutLast[1].output.nodes) = 3
    /\ \E i, j, t \in 1..3 :
        LET out == layoutLast[1].output.nodes
        IN /\ out[t].data.type = "trigger"
           /\ out[t].position = [x |-> 160, y |-> 150]
           /\ out[i].data.type = "alarm"
           /\ out[i].position.x = 340
           /\ out[j].data.type = "rule"
           /\ out[j].position.x = 340
           /\ {out[i].position.y, out[j].position.y} = {80, 220}

\* the place of a node of the input list
InputIndex(input, id) == CHOOSE i \in 1..Len(input) : input[i].id = id

\* C24: of two laid-out nodes of one column the earlier one has the label
\* that compares lower or equal, and when the labels are equal the earlier
\* one came first in the input list.
C24_SortedByLabelStable ==
    layoutLast # <<>> =>
        LET input == layoutLast[1].input
            out == layoutLast[1].output.nodes
        IN \A i, j \in 1..Len(out) :
            (i < j /\ ColumnOfType(out[i].data.type) = ColumnOfType(out[j].data.type)) =>
                /\ localeCompare(out[i].data.label, out[j].data.label) <= 0
                /\ out[i].data.label = out[j].data.label =>
                    InputIndex(input, out[i].id) < InputIndex(input, out[j].id)

\* C24 witness: a column of three nodes given as B, a, a comes out as the
\* first a, the second a, B
C24_Witness ==
    /\ layoutLast # <<>>
    /\ Len(layoutLast[1].input) = 3
    /\ \A i \in 1..3 : layoutLast[1].input[i].data.type = "rule"
    /\ layoutLast[1].input[1].data.label = sUpperB
    /\ layoutLast[1].input[2].data.label = sLowerA
    /\ layoutLast[1].input[3].data.label = sLowerA
    /\ [i \in 1..3 |-> layoutLast[1].output.nodes[i].id]
            = << <<"n", 2>>, <<"n", 3>> , <<"n", 1>> >>

(***************************************************************************)
(* Properties of alarm generation                                          *)
(***************************************************************************)
\* the rule is considered by the call: it has a sig_id and its severity
\* lies in the range of the call, if there is one
Considered(call, r) ==
    /\ r.sig_id # <<>>
    /\ call.range # <<>> =>
        (call.range[1].min <= r.severity /\ r.severity <= call.range[1].max)

KeyOfRule(call, r) == <<CustomerId, call.matchField, r.sig_id[1]>>

KeyOfAlarm(a) == <<a.customer_id, a.match_field, a.match_value>>

\* the key of the i-th selected rule is that of an alarm that existed
\* before the call or of a considered rule earlier in the selection
KeyTaken(call, sel, i) ==
    \/ \E k \in 1..Len(call.before) : KeyOfAlarm(call.before[k]) = KeyOfRule(call, sel[i])
    \/ \E j \in 1..(i - 1) :
        Considered(call, sel[j]) /\ KeyOfRule(call, sel[j]) = KeyOfRule(call, sel[i])

CreatedFor(call, r) ==
    {k \in 1..Len(call.result.created) : call.result.created[k].name = r.name}

\* C6: after any sequence of generation calls for the customer no two
\* alarms have the same dedup key (customer_id, match_field, match_value);
\* in every call a considered rule whose key is already taken, by an alarm
\* that existed or by a rule earlier in the batch, is skipped with reason
\* "duplicate signature" and creates nothing, any other considered rule
\* creates exactly one alarm with its key; and a call that repeats an earlier
\* call (same selection, same settings, same range) creates no alarm.
C6_OneAlarmPerDedupKey ==
    /\ \A i, j \in 1..Len(customerAlarms) :
        KeyOfAlarm(customerAlarms[i]) = KeyOfAlarm(customerAlarms[j]) => i = j
    /\ \A c \in 1..Len(genCalls) :
        genCalls[c].result.error = "" =>
            LET call == genCalls[c]
                sel == rulesWithIds(call.selection)
            IN \A i \in 1..Len(sel) :
                Considered(call, sel[i]) =>
                    IF KeyTaken(call, sel, i)
                    THEN /\ CreatedFor(call, sel[i]) = {}
                         /\ \E k \in 1..Len(call.result.skipped) :
                                call.result.skipped[k] =
                                    [rule_id |-> sel[i].id, reason |-> "duplicate signature"]
                    ELSE /\ Cardinality(CreatedFor(call, sel[i])) = 1
                         /\ \A k \in CreatedFor(call, sel[i]) :
                                KeyOfAlarm(call.result.created[k]) = KeyOfRule(call, sel[i])
                         /\ \A k \in 1..Len(call.result.skipped) :
                                call.result.skipped[k].rule_id # sel[i].id
    /\ \A c, d \in 1..Len(genCalls) :
        (/\ c < d
         /\ genCalls[c].selection = genCalls[d].selection
         /\ genCalls[c].matchField = genCalls[d].matchField
         /\ genCalls[c].range = genCalls[d].range)
        => genCalls[d].result.created = <<>>

\* two rules that share sig_id "10-5" were selected when no alarm had that
\* key: one alarm was created and the second rule skipped as a duplicate;
\* the same selection generated again created nothing
C6_Witness ==
    /\ Len(genCalls) = 2
    /\ Len(customerRules) = 2
    /\ customerRules[1].sig_id = <<sSig105>>
    /\ customerRules[2].sig_id = <<sSig105>>
    /\ genCalls[1].selection = {1, 2}
    /\ genCalls[2].selection = {1, 2}
    /\ genCalls[1].matchField = genCalls[2].matchField
    /\ genCalls[1].range = <<>>
    /\ genCalls[2].range = <<>>
    /\ Len(genCalls[1].result.created) = 1
    /\ genCalls[1].result.skipped = <<[rule_id |-> 2, reason |-> "duplicate signature"]>>
    /\ genCalls[2].result.created = <<>>
    /\ Len(genCalls[2].result.skipped) = 2
    /\ Len(customerAlarms) = Len(genCalls[1].before) + 1

InsideRange(call, r) ==
    call.range[1].min <= r.severity /\ r.severity <= call.range[1].max

SkippedAs(call, r, reason) ==
    {k \in 1..Len(call.result.skipped) :
        call.result.skipped[k] = [rule_id |-> r.id, reason |-> reason]}

\* C11: in every generation call that is given a severity range [min, max]
\* with min <= max, each created alarm belongs to a selected rule whose
\* severity is within the range (ends included), and each selected rule
\* whose severity is outside the range is skipped exactly once, with reason
\* "severity out of range", and creates nothing; no rule within the range is
\* skipped for that reason.
C11_SeverityRangeFilters ==
    \A c \in 1..Len(genCalls) :
        (genCalls[c].range # <<>> /\ genCalls[c].result.error = "") =>
            \E call \in {genCalls[c]} :
            \E sel \in {rulesWithIds(call.selection)} :
                /\ \A k \in 1..Len(call.result.created) :
                    \E i \in 1..Len(sel) :
                        /\ k \in CreatedFor(call, sel[i])
                        /\ InsideRange(call, sel[i])
                        /\ call.result.created[k].severity = sel[i].severity
                /\ \A i \in 1..Len(sel) :
                    IF InsideRange(call, sel[i])
                    THEN SkippedAs(call, sel[i], "severity out of range") = {}
                    ELSE /\ CreatedFor(call, sel[i]) = {}
                         /\ Cardinality(SkippedAs(call, sel[i], "severity out of range")) = 1
                         /\ \A k \in 1..Len(call.result.skipped) :
                                call.result.skipped[k].rule_id = sel[i].id
                                    => call.result.skipped[k].reason = "severity out of range"

\* range [60,100] over the three rules of severities 50, 70 and 90, for a
\* customer without alarms: two alarms created, the rule at 50 skipped
C11_Witness ==
    /\ customerRules = SeverityExampleRules
    /\ Len(genCalls) >= 1
    /\ genCalls[1].selection = {1, 2, 3}
    /\ genCalls[1].range = <<[min |-> 60, max |-> 100]>>
    /\ genCalls[1].before = <<>>
    /\ Len(genCalls[1].result.created) = 2
    /\ genCalls[1].result.created[1].severity = 70
    /\ genCalls[1].result.created[2].severity = 90
    /\ genCalls[1].result.skipped =
            <<[rule_id |-> 1, reason |-> "severity out of range"]>>

(***************************************************************************)
(* Properties of the relationships                                         *)
(***************************************************************************)
\* the text between the first and the last character that is not white space
Stripped(str) ==
    LET solid == {i \in 1..Len(str) : str[i] \notin {" ", "\t", "\n"}}
    IN IF solid = {} THEN <<>>
       ELSE SubSeq(str, CHOOSE a \in solid : \A i \in solid : a <= i,
                        CHOOSE b \in solid : \A i \in solid : i <= b)

SameIgnoringCase(a, b) ==
    /\ Len(a) = Len(b)
    /\ \A i \in 1..Len(a) : toUpperChar(a[i]) = toUpperChar(b[i])

\* the rule's sig_id equals the alarm's match_value, trimmed, whatever the case
SignatureMatches(r, a) ==
    /\ r.sig_id # <<>>
    /\ SameIgnoringCase(Stripped(r.sig_id[1]), Stripped(a.match_value))

RelationshipsOf(r, a) ==
    {k \in 1..Len(relationships) :
        relationships[k].rule_id = r.id /\ relationships[k].alarm_id = a.id}

\* C7: in the relationships the Analysis page has fetched, a rule and an
\* alarm of the customer have a Relationship, exactly one, if and only if
\* the rule's sig_id equals the alarm's match_value after trimming and
\* without regard to case; every Relationship names "sig_id" among its
\* matched_fields; a pair that only shares windows_event_ids has none.
C7_RelationshipIffSignature ==
    coverage # <<>> =>
        /\ \A i \in 1..Len(customerRules), j \in 1..Len(customerAlarms) :
            Cardinality(RelationshipsOf(customerRules[i], customerAlarms[j]))
                = IF SignatureMatches(customerRules[i], customerAlarms[j]) THEN 1 ELSE 0
        /\ \A k \in 1..Len(relationships) :
            /\ "sig_id" \in relationships[k].matched_fields
            /\ \E i \in 1..Len(customerRules) : customerRules[i].id = relationships[k].rule_id
            /\ \E j \in 1..Len(customerAlarms) : customerAlarms[j].id = relationships[k].alarm_id

\* fetched: sig_id "47-1" with match_value "47-1" gave one Relationship
\* with "sig_id" in its matched_fields, while another alarm that shares the
\* event id 4625 with the rule, but not the signature, got none
C7_Witness ==
    /\ coverage # <<>>
    /\ ~analysisLoading
    /\ \E i \in 1..Len(customerRules), j, m \in 1..Len(customerAlarms) :
        /\ customerRules[i].sig_id = <<sSig471>>
        /\ customerAlarms[j].match_value = sSig471
        /\ \E k \in 1..Len(relationships) :
            /\ relationships[k].rule_id = customerRules[i].id
            /\ relationships[k].alarm_id = customerAlarms[j].id
            /\ "sig_id" \in relationships[k].matched_fields
        /\ customerAlarms[m].match_value = sMatch99
        /\ 4625 \in customerRules[i].windows_event_ids \cap customerAlarms[m].windows_event_ids
        /\ RelationshipsOf(customerRules[i], customerAlarms[m]) = {}

(***************************************************************************)
(* Properties of the rule details                                          *)
(***************************************************************************)
IdsOf(alarms) == {alarms[k].id : k \in 1..Len(alarms)}

\* the relationships endpoint reports a Relationship of the rule and the alarm
HasRelationship(r, a) ==
    \E rels \in {getRelationships} :
        \E k \in 1..Len(rels) :
            rels[k].rule_id = r.id /\ rels[k].alarm_id = a.id

\* C8: when fetchRuleDetails has completed for a rule, an alarm of the
\* customer is in the event-overlap-only list exactly when it has no
\* Relationship with that rule and its windows_event_ids share at least one
\* id with the rule's, and the connected list holds exactly the alarms that
\* have a Relationship with the rule; at no time is an alarm in both lists.
C8_OverlapOnlyExactly ==
    /\ IdsOf(connectedAlarms) \cap IdsOf(eventOverlapAlarms) = {}
    /\ detailsShown =>
        /\ selectedRule # <<>>
        /\ \A j \in 1..Len(customerAlarms) :
            /\ customerAlarms[j].id \in IdsOf(eventOverlapAlarms)
                <=> (/\ ~HasRelationship(selectedRule[1], customerAlarms[j])
                     /\ selectedRule[1].windows_event_ids
                            \cap customerAlarms[j].windows_event_ids # {})
            /\ customerAlarms[j].id \in IdsOf(connectedAlarms)
                <=> HasRelationship(selectedRule[1], customerAlarms[j])
        /\ \A k \in 1..Len(eventOverlapAlarms) :
            \E j \in 1..Len(customerAlarms) : customerAlarms[j] = eventOverlapAlarms[k]

\* the details of a rule with events {4625}: one alarm with events
\* {4624, 4625} matches its signature and is connected, another with the
\* same events does not match and is event-overlap-only
C8_Witness ==
    /\ detailsShown
    /\ ~flowLoading
    /\ selectedRule # <<>>
    /\ selectedRule[1].windows_event_ids = {4625}
    /\ Len(connectedAlarms) = 1
    /\ connectedAlarms[1].windows_event_ids = {4624, 4625}
    /\ Len(eventOverlapAlarms) = 1
    /\ eventOverlapAlarms[1].windows_event_ids = {4624, 4625}
    /\ eventOverlapAlarms[1].match_value = sMatch99

\* the alarms of the alarm nodes shown, in order
AlarmsShown ==
    LET shown == SelectSeq(flowNodes, LAMBDA n : n.data.type = "alarm")
    IN [i \in 1..Len(shown) |-> shown[i].data.alarm]

\* the diagram shown belongs to the selected rule: the alarm nodes are
\* those of the connected alarms; for a rule whose XML does not parse the
\* only other nodes are the fallback rule node "rule-main", from which the
\* alarm edges start, and the note shown when there are no alarms; for a
\* rule whose XML holds named rules there are as many trigger, rule and
\* filterComponent nodes as the XML calls for, and no fallback node
DiagramComplete ==
    /\ selectedRule # <<>>
    /\ AlarmsShown = connectedAlarms
    /\ LET text == selectedRule[1].xml_content
           n == Len(connectedAlarms)
       IN IF text.kind # "wellformed"
          THEN /\ flowNodes # <<>>
               /\ flowNodes[1].id = RuleMain
               /\ flowNodes[1].data.type = "rule"
               /\ Len(flowNodes) = 1 + (IF n = 0 THEN 1 ELSE n)
               /\ Len(flowEdges) = n
               /\ \A i \in 1..n :
                    /\ flowEdges[i].source = RuleMain
                    /\ flowEdges[i].target = flowNodes[1 + i].id
                    /\ flowNodes[1 + i].data.alarm = connectedAlarms[i]
          ELSE LET rules == SelectSeq(Elements(text), NamedRule)
                   d == [nodes |-> flowNodes, edges |-> flowEdges]
               IN rules # <<>> =>
                    /\ \A i \in 1..Len(flowNodes) : flowNodes[i].id # RuleMain
                    /\ Len(NodesOfType(d, "rule")) = Len(rules)
                    /\ Len(NodesOfType(d, "trigger"))
                            = Len(ElementsTagged(text, "trigger"))
                    /\ Len(NodesOfType(d, "filterComponent"))
                            = SumFirstFilterSizes(rules)

\* C14: whenever the details of a rule are shown, after any sequence of
\* fetches for other rules that completed, failed or whose XML did not
\* parse, the diagram is a complete diagram of that rule: for a rule whose
\* XML parseRuleFilters rejects, the fallback rule node with the nodes and
\* edges of the rule's alarms; for a rule whose XML parses, the parsed
\* nodes, also when the rule shown before it had failed to parse.
C14_ParseFailureIsolated == detailsShown => DiagramComplete

\* C14 witness: the diagram of a rule with broken XML is shown, made of the
\* fallback node and the node of its connected alarm, while the details of
\* another rule, whose XML parses, are being fetched
C14_Witness ==
    /\ detailsShown
    /\ selectedRule # <<>>
    /\ selectedRule[1].xml_content.kind = "malformed"
    /\ Len(connectedAlarms) = 1
    /\ Len(flowNodes) = 2
    /\ flowNodes[1].id = RuleMain
    /\ flowNodes[2].data.type = "alarm"
    /\ flowEdges # <<>>
    /\ flowPending # <<>>
    /\ \E i \in 1..Len(customerRules) :
        /\ customerRules[i].id = flowPending[1]
        /\ customerRules[i].xml_content.kind = "wellformed"

(***************************************************************************)
(* Properties of the coverage figures                                      *)
(***************************************************************************)
\* a number, not NaN and not infinite, between 0 and 100
InPercentRange(v) == v.kind = "finite" /\ 0 <= v.num /\ v.num <= 100 * v.den

IsZero(v) == v.kind = "finite" /\ v.num = 0

C10_MatchedWithinTotal ==
    coverage # <<>> =>
        /\ 0 <= coverage[1].matched_rules
        /\ coverage[1].matched_rules <= coverage[1].total_rules
        /\ 0 <= coverage[1].matched_alarms
        /\ coverage[1].matched_alarms <= coverage[1].total_alarms
        /\ coverageData[2].value >= 0
        /\ alarmCoverageData[2].value >= 0
        /\ coverageData[1].value + coverageData[2].value = Len(customerRules)
        /\ alarmCoverageData[1].value + alarmCoverageData[2].value = Len(customerAlarms)

\* one rule matches both alarms and the other rule matches none: two
\* relationships, one matched rule of two, one derived unmatched rule
C10_Witness ==
    /\ ~analysisLoading
    /\ coverage # <<>>
    /\ Len(relationships) = 2
    /\ coverage[1].matched_rules = 1
    /\ coverage[1].total_rules = 2
    /\ coverage[1].matched_alarms = 2
    /\ coverageData[2].value = 1
    /\ alarmCoverageData[2].value = 0

(***************************************************************************)
(* Properties of generateFlowDiagram                                       *)
(***************************************************************************)
\* the edges of a diagram that lead to an alarm node
AlarmEdgesOf(d) ==
    SelectSeq(d.edges, LAMBDA e : Len(e.target) = 2 /\ e.target[1] = "alarm")

RuleNodesOf(d) == SelectSeq(d.nodes, LAMBDA n : n.data.type = "rule")

\* C19 as stated: every edge of the combined diagram that leads to an alarm
\* node starts at the first node of type "rule" of the laid-out nodes.
C19_AsStated ==
    diagramShown # <<>> =>
        \A i \in 1..Len(AlarmEdgesOf(diagramShown[1])) :
            /\ RuleNodesOf(diagramShown[1]) # <<>>
            /\ AlarmEdgesOf(diagramShown[1])[i].source = RuleNodesOf(diagramShown[1])[1].id

C12_AsStated ==
    lastGenerateCall # <<>> =>
        lastGenerateCall[1].rule_ids \subseteq ruleIdsOf(lastGenerateCall[1].customerId)

\* C20: a step of the page makes a generateAlarms call only when the
\* Generate Alarms button is activated; activated with a non-empty selection
\* (the button being enabled, that is no generation in flight) it makes
\* exactly one call, with the customer id selected at that moment and exactly
\* the ids ticked at that moment; activated with an empty selection it makes
\* no call.
C20_GenerateCallsOnce ==
    [][/\ ClickGenerateAlarms =>
            IF selectedRules # {} /\ generatePending = <<>>
            THEN /\ generateCalls' = generateCalls + 1
                 /\ lastGenerateCall' =
                        <<[customerId |-> selectedCustomerId, rule_ids |-> selectedRules]>>
            ELSE UNCHANGED <<generateCalls, lastGenerateCall>>
       /\ ~ClickGenerateAlarms => UNCHANGED <<generateCalls, lastGenerateCall>>]_vars

\* customer 1 was selected, its rule ticked and the button activated: one
\* call for customer 1 with that rule, still in flight
C20_Witness ==
    /\ selectedCustomerId = 1
    /\ selectedRules = ruleIdsOf(1)
    /\ generatePending = <<1>>
    /\ generateCalls = 1
    /\ lastGenerateCall = <<[customerId |-> 1, rule_ids |-> ruleIdsOf(1)]>>

\* the step ends a generation attempt: its request has settled
GenerationEnds == generatePending # <<>> /\ generatePending' = <<>>

\* C27: once the request of a generation attempt has settled the generating
\* flag is false, whichever way it settled; the step that ends the attempt
\* clears the selection when the attempt succeeded (the step that also
\* starts the reload of the rules) and leaves the selection as it was when
\* the attempt failed.
C27_GeneratingEnds ==
    /\ [](generatePending = <<>> => ~generating)
    /\ [][GenerationEnds =>
            IF rulesPending' # rulesPending \/ rulesLoading' # rulesLoading
            THEN selectedRules' = {}
            ELSE selectedRules' = selectedRules]_vars

\* a generation for customer 1 has failed: the flag is down and the rules
\* that were sent are still ticked
C27_Witness ==
    /\ generateCalls = 1
    /\ generatePending = <<>>
    /\ selectedRules # {}
    /\ lastGenerateCall = <<[customerId |-> 1, rule_ids |-> selectedRules]>>

\* C30 as stated: select-all with some listed rule not ticked makes the
\* selection exactly the listed rules, and with every listed rule ticked
\* empties it. The code compares the size of the selection with the length
\* of the list instead, and the selection may hold ids that are not listed.
C30_AsStated ==
    [][handleSelectAll =>
          IF filteredRules \subseteq selectedRules
          THEN selectedRules' = {}
          ELSE selectedRules' = filteredRules]_vars

\* C26 as stated, for the rule list: when the last pending fetchRules
\* response arrives while a customer is selected, the list shown afterwards
\* is the list of that customer. The code stores whichever response arrives
\* last, so a response for an earlier customer that arrives after the one
\* for the selected customer is shown.
C26_AsStated ==
    [][(/\ Len(rulesPending) = 1
        /\ FetchRulesDone(1)
        /\ selectedCustomerId # NoCustomer) =>
            pageRules' = ruleIdsOf(selectedCustomerId)]_vars

\* C28: whatever actions have been dispatched, the list holds at most
\* TOAST_LIMIT toasts, and right after an ADD_TOAST it holds the toast of
\* that action and nothing else.
C28_AtMostOneToast ==
    /\ Len(toasts) <= TOAST_LIMIT
    /\ \A d \in {lastToastAction[i] : i \in 1..Len(lastToastAction)} :
          d.action.type = "ADD_TOAST" => toasts = <<d.action.toast>>

\* a toast was added while another one was in the list
C28_Witness ==
    /\ lastToastAction # <<>>
    /\ lastToastAction[1].action.type = "ADD_TOAST"
    /\ Len(lastToastAction[1].state) = 1
    /\ lastToastAction[1].state[1].id # lastToastAction[1].action.toast.id
    /\ toasts = <<lastToastAction[1].action.toast>>

\* the text is a decimal number: digits, with or without a sign
IsNumberText(text) ==
    LET digits == IF text # <<>> /\ Head(text) \in {"-", "+"} THEN Tail(text) ELSE text
    IN digits # <<>> /\ \A i \in 1..Len(digits) : isDigit(digits[i])

\* C21 as stated, the button being allowed to be disabled while a save is
\* in flight: it is disabled when the settings have been loaded, a change
\* of a setting raises the unsaved-changes flag, and the flag falls only
\* when a save of the settings in the form has succeeded. In the code a
\* successful save lowers the flag whatever has been changed since the
\* request was sent.
C21_AsStated ==
    [][/\ (systemLoading /\ ~systemLoading') => saveDisabled'
       /\ (~systemLoading /\ systemSettings' # systemSettings /\ savePending' = savePending)
              => systemDirty'
       /\ (systemDirty /\ ~systemDirty')
              => (savePending # <<>> /\ savePending[1] = systemSettings)]_vars

====
